---------------------------- MODULE Spec2Model ----------------------------
(***************************************************************************)
(* FinishFirst: the blocking decision engine of the background script      *)
(* (src/src/background/index.ts), the typed store it reads and writes      *)
(* (src/src/shared/storage.ts) and the whitelist matcher                   *)
(* (src/src/shared/whitelist.ts).                                          *)
(*                                                                         *)
(* Strings are real strings: URLs and patterns are matched character by    *)
(* character.  A nullable or optional value (number | null, Goal | null,   *)
(* a key that may be absent from the store) is a sequence of length at     *)
(* most one: None is null / undefined, Some(v) is the value v.             *)
(***************************************************************************)
EXTENDS Integers, Sequences, FiniteSets, TLC

None == <<>>
Some(v) == <<v>>

(***************************************************************************)
(* String helpers: String.prototype.trim / includes / startsWith /         *)
(* indexOf / toLowerCase as far as the URLs and patterns below use them.   *)
(***************************************************************************)
CharAt(s, i) == SubSeq(s, i, i)

From(s, i) == SubSeq(s, i, Len(s))

IsSpace(c) == c = " "

RECURSIVE TrimStart(_)
TrimStart(s) == IF Len(s) > 0 /\ IsSpace(CharAt(s, 1)) THEN TrimStart(From(s, 2)) ELSE s

RECURSIVE TrimEnd(_)
TrimEnd(s) == IF Len(s) > 0 /\ IsSpace(CharAt(s, Len(s))) THEN TrimEnd(SubSeq(s, 1, Len(s) - 1)) ELSE s

Trim(s) == TrimEnd(TrimStart(s))

StartsWith(s, prefix) == Len(prefix) <= Len(s) /\ SubSeq(s, 1, Len(prefix)) = prefix

\* The least element of a set of indices, none when the set is empty.
Least(hits, none) == IF hits = {} THEN none ELSE CHOOSE i \in hits : \A j \in hits : i <= j

\* The least index at which sub occurs in s, 0 when it does not occur.
IndexOf(s, sub) == Least({i \in 1..(Len(s) - Len(sub) + 1) : SubSeq(s, i, i + Len(sub) - 1) = sub}, 0)

Includes(s, sub) == IndexOf(s, sub) > 0

UpperCase == <<"A", "B", "C", "D", "E", "F", "G", "H", "I", "J", "K", "L", "M", "N", "O", "P", "Q", "R", "S", "T", "U", "V", "W", "X", "Y", "Z">>

LowerCase == <<"a", "b", "c", "d", "e", "f", "g", "h", "i", "j", "k", "l", "m", "n", "o", "p", "q", "r", "s", "t", "u", "v", "w", "x", "y", "z">>

LowerCaseAt(c, i) == IF i = 0 THEN c ELSE LowerCase[i]

LowerChar(c) == LowerCaseAt(c, Least({i \in 1..Len(UpperCase) : UpperCase[i] = c}, 0))

RECURSIVE ToLower(_)
ToLower(s) == IF s = "" THEN "" ELSE LowerChar(CharAt(s, 1)) \o ToLower(From(s, 2))


(***************************************************************************)
(* URLs.  URLPattern.test parses its input with the URL parser and matches *)
(* the components one by one; a string that is no absolute URL matches     *)
(* nothing.  ParseUrl gives the components the patterns below constrain:   *)
(* protocol (lower-cased, without ':'), hostname (lower-cased), pathname   *)
(* and search (without '?').  A special scheme has pathname "/" when the   *)
(* URL names none.  Each step of the parser takes what the steps before    *)
(* it found as parameters.                                                 *)
(***************************************************************************)
SpecialSchemes == {"http", "https", "ws", "wss", "ftp", "file"}

\* The least index of "/" or "?" in s, Len(s) + 1 when there is none.
PathStart(s) == Least({i \in 1..Len(s) : CharAt(s, i) \in {"/", "?"}}, Len(s) + 1)

\* s split at index q of its first "?" (0: there is none).
SplitSearchAt(s, q) ==
  IF q = 0 THEN [pathname |-> s, search |-> ""]
  ELSE [pathname |-> SubSeq(s, 1, q - 1), search |-> From(s, q + 1)]

SplitSearch(s) == SplitSearchAt(s, IndexOf(s, "?"))

ParsedUrl(protocol, hostname, tail) ==
  Some([protocol |-> protocol,
        hostname |-> hostname,
        pathname |-> IF tail.pathname = "" /\ hostname # "" /\ protocol \in SpecialSchemes
                     THEN "/" ELSE tail.pathname,
        search |-> tail.search])

\* auth is what follows "//", p the index where its path starts.
ParseAuthority(protocol, auth, p) ==
  ParsedUrl(protocol, ToLower(SubSeq(auth, 1, p - 1)), SplitSearch(From(auth, p)))

\* rest is what follows the ":" of the scheme.
ParseAfterScheme(protocol, rest) ==
  IF StartsWith(rest, "//")
  THEN ParseAuthority(protocol, From(rest, 3), PathStart(From(rest, 3)))
  ELSE ParsedUrl(protocol, "", SplitSearch(rest))

\* c is the index of the first ":" of u.
ParseUrlAt(u, c) ==
  IF c <= 1 THEN None ELSE ParseAfterScheme(ToLower(SubSeq(u, 1, c - 1)), From(u, c + 1))

ParseUrl(u) == ParseUrlAt(u, IndexOf(u, ":"))

(***************************************************************************)
(* URLPattern (src/src/types/urlpattern.d.ts declares it; the              *)
(* implementation is the browser's or urlpattern-polyfill).  The fragment  *)
(* of the pattern syntax the extension's patterns use: literal text, the   *)
(* full wildcard '*' and a literal group '{...}' with the optional         *)
(* modifier '?'.  new URLPattern(string) without a base URL throws for a   *)
(* pattern that names no protocol (a relative pattern) and for an          *)
(* unbalanced group; a component after the last one the string names is    *)
(* the wildcard, a skipped earlier one is empty.                           *)
(***************************************************************************)
RECURSIVE GlobMatch(_, _)
\* p starts with a group that closes at index e.
GlobMatchGroup(p, s, e, optional) ==
  \/ GlobMatch(SubSeq(p, 2, e - 1) \o From(p, IF optional THEN e + 2 ELSE e + 1), s)
  \/ optional /\ GlobMatch(From(p, e + 2), s)

GlobMatch(p, s) ==
  IF p = "" THEN s = ""
  ELSE IF CharAt(p, 1) = "*"
  THEN \E k \in 1..(Len(s) + 1) : GlobMatch(From(p, 2), From(s, k))
  ELSE IF CharAt(p, 1) = "{"
  THEN GlobMatchGroup(p, s, IndexOf(p, "}"), CharAt(p, IndexOf(p, "}") + 1) = "?")
  ELSE /\ s # ""
       /\ CharAt(s, 1) = CharAt(p, 1)
       /\ GlobMatch(From(p, 2), From(s, 2))

RECURSIVE BracesBalanced(_, _)
BracesBalanced(p, open) ==
  IF p = "" THEN ~open
  ELSE IF CharAt(p, 1) = "{" THEN ~open /\ BracesBalanced(From(p, 2), TRUE)
  ELSE IF CharAt(p, 1) = "}" THEN open /\ BracesBalanced(From(p, 2), FALSE)
  ELSE BracesBalanced(From(p, 2), open)

\* The least index of a '?' that starts the search component: one that is not
\* the optional modifier of a group; 0 when there is none.
SearchStart(p) == Least({i \in 2..Len(p) : CharAt(p, i) = "?" /\ CharAt(p, i - 1) # "}"}, 0)

\* auth is what follows "//" in the pattern, p the index of its first "/";
\* named: the pattern names a search component.
PatternAuthority(protocol, auth, p, search, named) ==
  Some([protocol |-> protocol,
        hostname |-> SubSeq(auth, 1, p - 1),
        pathname |-> IF p > Len(auth) /\ ~named THEN "*" ELSE From(auth, p),
        search |-> search])

\* body is what stands between the ":" of the protocol and the search.
PatternBody(protocol, body, search, named) ==
  IF StartsWith(body, "//")
  THEN PatternAuthority(protocol, From(body, 3),
                        Least({i \in 1..Len(From(body, 3)) : CharAt(From(body, 3), i) = "/"},
                              Len(From(body, 3)) + 1),
                        search, named)
  ELSE Some([protocol |-> protocol, hostname |-> "", pathname |-> body, search |-> search])

\* rest is what follows the ":" of the protocol, q the index where its search
\* starts (0: it names none).
PatternAfterProtocol(protocol, rest, q) ==
  IF q = 0 THEN PatternBody(protocol, rest, "*", FALSE)
  ELSE PatternBody(protocol, SubSeq(rest, 1, q - 1), From(rest, q + 1), TRUE)

\* c is the index of the first ":" of input.
NewURLPatternAt(input, c) ==
  IF c <= 1 \/ ~BracesBalanced(input, FALSE) THEN None
  ELSE PatternAfterProtocol(SubSeq(input, 1, c - 1), From(input, c + 1), SearchStart(From(input, c + 1)))

\* new URLPattern(input, { ignoreCase: true }): None when the constructor throws.
NewURLPattern(input) == NewURLPatternAt(input, IndexOf(input, ":"))

\* parsed is the URL tested, None when it does not parse.
URLPatternTestParsed(compiled, parsed) ==
  /\ parsed # None
  /\ \A k \in {"protocol", "hostname", "pathname", "search"} :
       GlobMatch(ToLower(compiled[k]), ToLower(parsed[1][k]))

\* URLPattern.prototype.test(url) of a pattern compiled with ignoreCase.
URLPatternTest(compiled, url) == URLPatternTestParsed(compiled, ParseUrl(url))

(***************************************************************************)
(* The URLs and patterns of the model.  Matching a URL against a pattern   *)
(* is computed character by character, once for every pair: the tables     *)
(* below tabulate the string operations over these finite sets.            *)
(***************************************************************************)
\* encodeURIComponent: every character outside A-Z a-z 0-9 - _ . ! ~ * ' ( ) is
\* percent-encoded; the ones the URLs of the model hold are listed.
EncodeChar(c) ==
  CASE c = ":" -> "%3A"
    [] c = "/" -> "%2F"
    [] c = "?" -> "%3F"
    [] c = "=" -> "%3D"
    [] c = "%" -> "%25"
    [] c = " " -> "%20"
    [] c = "&" -> "%26"
    [] c = "#" -> "%23"
    [] OTHER -> c

RECURSIVE encodeURIComponent(_)
encodeURIComponent(s) == IF s = "" THEN "" ELSE EncodeChar(CharAt(s, 1)) \o encodeURIComponent(From(s, 2))

\* chrome.runtime.getURL(path): the extension's origin followed by the path.
runtimeGetURL(path) == "chrome-extension://ffid/" \o path

\* getBlockedPageUrl as it would be if it appended the URL as it is.
getBlockedPageUrl_Unencoded(originalUrl) ==
  runtimeGetURL("blocked/blocked.html") \o "?url=" \o originalUrl

getBlockedPageUrl(originalUrl) ==
  runtimeGetURL("blocked/blocked.html") \o "?url=" \o encodeURIComponent(originalUrl)

\* The character a percent-encoded byte of a URLSearchParams value stands for;
\* the ones EncodeChar produces are listed.
DecodeHex(hex) ==
  CASE hex = "3A" -> ":"
    [] hex = "2F" -> "/"
    [] hex = "3F" -> "?"
    [] hex = "3D" -> "="
    [] hex = "25" -> "%"
    [] hex = "20" -> " "
    [] hex = "26" -> "&"
    [] hex = "23" -> "#"
    [] OTHER -> "%" \o hex

\* The decoding URLSearchParams applies to a value: '+' is a space and %XX the
\* byte XX.
RECURSIVE DecodeParam(_)
DecodeParam(s) ==
  IF s = "" THEN ""
  ELSE IF CharAt(s, 1) = "%" /\ Len(s) >= 3 THEN DecodeHex(SubSeq(s, 2, 3)) \o DecodeParam(From(s, 4))
  ELSE IF CharAt(s, 1) = "+" THEN " " \o DecodeParam(From(s, 2))
  ELSE CharAt(s, 1) \o DecodeParam(From(s, 2))

RECURSIVE SearchParamsGet(_, _)
\* amp is the index of the first "&" of search, 0 when it has none.
SearchParamsGetAt(search, name, amp) ==
  IF StartsWith(search, name \o "=")
  THEN DecodeParam(SubSeq(search, Len(name) + 2, IF amp = 0 THEN Len(search) ELSE amp - 1))
  ELSE IF amp = 0 THEN ""
  ELSE SearchParamsGet(From(search, amp + 1), name)

\* new URLSearchParams(search).get(name) || '': the value of the first
\* parameter called name, '' when there is none.
SearchParamsGet(search, name) == SearchParamsGetAt(search, name, IndexOf(search, "&"))

\* The blocked page's originalUrl (src/src/blocked/index.ts, 35-36) when the
\* page was opened as pageUrl.
originalUrl(pageUrl) == SearchParamsGet(ParseUrl(pageUrl)[1].search, "url")

UnrelatedUrl == "https://unrelated.example/"

GithubUrl == "https://github.com/tizee"

\* A third-party page whose path holds the text of the blocked page's path.
LookalikeUrl == "https://evil.example/blocked/blocked.html"

SettingsUrl == "chrome://settings/"

\* A page address with a query of two parameters.
QueryUrl == "https://unrelated.example/s?q=a%20b&r=c"

\* Pages of extensions: the popup of a Chrome extension and of a Firefox one.
ChromePopupUrl == "chrome-extension://ffid/popup.html"

MozPopupUrl == "moz-extension://ffid/popup.html"

\* The URLs of the model.
Urls ==
  {"", "about:blank", "about:newtab", "chrome://newtab/", "edge://newtab/", SettingsUrl,
   UnrelatedUrl, GithubUrl, LookalikeUrl, QueryUrl, getBlockedPageUrl(UnrelatedUrl),
   ChromePopupUrl, MozPopupUrl}

\* The URLs a navigation commits.
NavUrls == {"chrome://newtab/", UnrelatedUrl, getBlockedPageUrl(UnrelatedUrl)}

\* The URLs a tab is found to show ("": the tab has no URL yet).
TabUrls == {"", SettingsUrl, UnrelatedUrl}

GithubPattern == "http{s}?://github.com/*"

\* The patterns the options page sends: one that compiles and one that names
\* no protocol and does not.
AddPatterns == {GithubPattern, "github.com"}

\* Every pattern a stored whitelist entry can hold.
Patterns ==
  AddPatterns \cup {"chrome://*", "chrome-extension://*/*", "edge://*", "moz-extension://*/*", "", "  "}

(***************************************************************************)
(* src/src/shared/whitelist.ts                                             *)
(***************************************************************************)
compilePattern(pattern) ==
  LET trimmed == Trim(pattern)
  IN IF trimmed = "" THEN None ELSE NewURLPattern(trimmed)

\* compilePattern(p) followed by urlPattern.test(u), tabulated: "invalid" when
\* p does not compile.
compileAndTest ==
  [p \in Patterns |->
     LET urlPattern == compilePattern(p)
     IN [u \in Urls |-> IF urlPattern = None THEN "invalid"
                        ELSE IF URLPatternTest(urlPattern[1], u) THEN "match" ELSE "no-match"]]

\* The loop as it would be if a pattern that does not compile ended it.
RECURSIVE isUrlWhitelistedFrom_InvalidEnds(_, _, _)
isUrlWhitelistedFrom_InvalidEnds(url, patterns, i) ==
  IF i > Len(patterns) THEN FALSE
  ELSE IF ~patterns[i].enabled THEN isUrlWhitelistedFrom_InvalidEnds(url, patterns, i + 1)
  ELSE LET tested == compileAndTest[patterns[i].pattern][url]
       IN IF tested = "invalid" THEN FALSE
          ELSE IF tested = "match" THEN TRUE
          ELSE isUrlWhitelistedFrom_InvalidEnds(url, patterns, i + 1)

\* The loop of isUrlWhitelisted from entry i on: a disabled entry and one that
\* does not compile are skipped, the first match returns true.
RECURSIVE isUrlWhitelistedFrom(_, _, _)
isUrlWhitelistedFrom(url, patterns, i) ==
  IF i > Len(patterns) THEN FALSE
  ELSE IF ~patterns[i].enabled THEN isUrlWhitelistedFrom(url, patterns, i + 1)
  ELSE LET tested == compileAndTest[patterns[i].pattern][url]
       IN IF tested = "invalid" THEN isUrlWhitelistedFrom(url, patterns, i + 1)
          ELSE IF tested = "match" THEN TRUE
          ELSE isUrlWhitelistedFrom(url, patterns, i + 1)

\* isUrlWhitelisted as it would be if only the first entry decided.
isUrlWhitelisted_FirstOnly(url, patterns) ==
  /\ Len(patterns) > 0
  /\ patterns[1].enabled
  /\ compileAndTest[patterns[1].pattern][url] = "match"

isUrlWhitelisted(url, patterns) == isUrlWhitelistedFrom(url, patterns, 1)

isValidPattern(pattern) == compilePattern(pattern) # None

\* The test for the blocked page as it would be if it never recognised it.
includesBlockedPage_Never == [u \in Urls |-> FALSE]

\* url.includes('blocked/blocked.html'), tabulated.
includesBlockedPage == [u \in Urls |-> Includes(u, "blocked/blocked.html")]

\* The test for "special pages" in checkCurrentTabOnFocusStart,
\* handleTabActivated and handleTabUpdate (index.ts, 181-184), tabulated.
isSpecialPage ==
  [u \in Urls |-> \/ StartsWith(u, "chrome://")
                  \/ StartsWith(u, "about:")
                  \/ StartsWith(u, "edge://")
                  \/ StartsWith(u, "moz-extension://")]

\* getBlockedPageUrl, tabulated.
blockedPageUrl == [u \in Urls |-> getBlockedPageUrl(u)]

(***************************************************************************)
(* Bounds of the model.                                                    *)
(***************************************************************************)
\* Events the model lets happen that change the state: commands, blocked
\* commits, clock ticks and restarts of the background script.
MaxEvents == 4

(***************************************************************************)
(* State.                                                                  *)
(*   store           browser.storage.local: each key of StorageSchema is   *)
(*                   None (absent) or Some(value)                          *)
(*   now             Date.now(), in ms                                     *)
(*   loadDay         getTodayString() when the background script was       *)
(*                   loaded: the date storageDefaults.stats carries        *)
(*   rnd             how many ids generateId has handed out                *)
(*   events          how many events that change the state have happened   *)
(*   lastBlockedUrl  the background script's module variable               *)
(*   badge           the badge text set by updateBadge                     *)
(*   inflight        the handler calls that are suspended at an await,     *)
(*                   each with its position and its local variables        *)
(* The tabs belong to the browser: what a handler reads of them (the URL a *)
(* tab shows, which tab is active) is an input of the event, and a         *)
(* redirect (tabs.update) is part of what the handler returns.             *)
(***************************************************************************)
VARIABLES store, now, loadDay, rnd, events, lastBlockedUrl, badge, inflight

vars == <<store, now, loadDay, rnd, events, lastBlockedUrl, badge, inflight>>

MsPerMinute == 60000

\* The clock advances in steps of three quarters of a minute and starts one
\* minute before midnight UTC, so that both Math.floor of the focus minutes
\* (0.75 -> 0, 1.5 -> 1) and the change of date happen within two ticks.
TickMs == (3 * MsPerMinute) \div 4

MsPerDay == 24 * 60 * MsPerMinute

StartNow == 2 * MsPerDay - MsPerMinute

\* new Date().toISOString().split('T')[0]: the UTC calendar date, which the
\* number of whole days since the epoch stands for one to one.
getTodayString == now \div MsPerDay

TabIds == {1, 2}

(***************************************************************************)
(* src/src/shared/storage.ts                                               *)
(***************************************************************************)
defaultWhitelist ==
  << [id |-> "chrome-internal", pattern |-> "chrome://*", label |-> "Chrome Internal Pages", enabled |-> TRUE],
     [id |-> "chrome-extension", pattern |-> "chrome-extension://*/*", label |-> "Chrome Extensions", enabled |-> TRUE],
     [id |-> "edge-internal", pattern |-> "edge://*", label |-> "Edge Internal Pages", enabled |-> TRUE],
     [id |-> "moz-extension", pattern |-> "moz-extension://*/*", label |-> "Firefox Extensions", enabled |-> TRUE] >>

\* legacyDefaultPatterns: id -> {legacy, current}
legacyDefaultPatterns ==
  [x \in {"chrome-internal", "chrome-extension", "edge-internal"} |->
     CASE x = "chrome-internal" -> [legacy |-> {"^chrome://"}, current |-> "chrome://*"]
       [] x = "chrome-extension" -> [legacy |-> {"^chrome-extension://"}, current |-> "chrome-extension://*/*"]
       [] x = "edge-internal" -> [legacy |-> {"^edge://"}, current |-> "edge://*"]]

\* normalizeStored as it would be if an entry whose id was already seen were
\* kept.
RECURSIVE normalizeStored_KeepAll(_, _, _, _, _)
normalizeStored_KeepAll(stored, i, seen, list, changed) ==
  IF i > Len(stored) THEN [list |-> list, seen |-> seen, changed |-> changed]
  ELSE LET pattern == stored[i]
           isLegacy == /\ pattern.id \in DOMAIN legacyDefaultPatterns
                       /\ pattern.pattern \in legacyDefaultPatterns[pattern.id].legacy
           updated == IF isLegacy
                      THEN [pattern EXCEPT !.pattern = legacyDefaultPatterns[pattern.id].current]
                      ELSE pattern
       IN normalizeStored_KeepAll(stored, i + 1, seen \cup {updated.id}, Append(list, updated),
                                  changed \/ isLegacy)

\* The first loop of normalizeWhitelist from entry i on: legacy default patterns
\* are rewritten, an id already seen is dropped.
RECURSIVE normalizeStored(_, _, _, _, _)
normalizeStored(stored, i, seen, list, changed) ==
  IF i > Len(stored) THEN [list |-> list, seen |-> seen, changed |-> changed]
  ELSE LET pattern == stored[i]
           isLegacy == /\ pattern.id \in DOMAIN legacyDefaultPatterns
                       /\ pattern.pattern \in legacyDefaultPatterns[pattern.id].legacy
           updated == IF isLegacy
                      THEN [pattern EXCEPT !.pattern = legacyDefaultPatterns[pattern.id].current]
                      ELSE pattern
       IN normalizeStored(stored, i + 1, seen \cup {updated.id},
                          IF updated.id \in seen THEN list ELSE Append(list, updated),
                          changed \/ isLegacy)

\* The second loop: every default entry whose id is missing is appended.
RECURSIVE addMissingDefaults(_, _, _, _)
addMissingDefaults(i, seen, list, changed) ==
  IF i > Len(defaultWhitelist) THEN [list |-> list, changed |-> changed]
  ELSE LET defaults == defaultWhitelist[i]
       IN IF defaults.id \in seen
          THEN addMissingDefaults(i + 1, seen, list, changed)
          ELSE addMissingDefaults(i + 1, seen \cup {defaults.id}, Append(list, defaults), TRUE)

\* stored is None (undefined) or Some(list).
normalizeWhitelist(stored) ==
  IF stored = None THEN [list |-> defaultWhitelist, changed |-> TRUE]
  ELSE LET AddDefaults(first) == addMissingDefaults(1, first.seen, first.list, first.changed)
       IN AddDefaults(normalizeStored(stored[1], 1, {}, <<>>, FALSE))

idleSession == [active |-> FALSE, startedAt |-> None, currentGoal |-> None, breakUntil |-> None]

\* storageDefaults: its stats carry the date of the moment the module was loaded.
storageDefaults ==
  [settings |-> [strictMode |-> FALSE, theme |-> "system"],
   whitelist |-> defaultWhitelist,
   focusSession |-> idleSession,
   stats |-> [date |-> loadDay, completedTasks |-> 0, focusMinutes |-> 0, blockedAttempts |-> 0],
   completedGoals |-> <<>>]

setStorage(st, key, value) == [st EXCEPT ![key] = Some(value)]

\* { ...current, ...updates }
Merge(current, updates) ==
  [k \in DOMAIN current \cup DOMAIN updates |-> IF k \in DOMAIN updates THEN updates[k] ELSE current[k]]

\* getStorageWithDefault as it would be without the normalization of an active
\* session that has no goal.
getStorageWithDefault_NoHeal(st, key) ==
  LET result == st[key]
      normalized == normalizeWhitelist(result)
  IN IF key = "stats" /\ result # None /\ result[1].date # getTodayString
     THEN [value |-> [storageDefaults.stats EXCEPT !.date = getTodayString],
           store |-> setStorage(st, key, [storageDefaults.stats EXCEPT !.date = getTodayString])]
     ELSE IF key = "whitelist"
     THEN [value |-> normalized.list,
           store |-> IF normalized.changed THEN setStorage(st, "whitelist", normalized.list) ELSE st]
     ELSE [value |-> IF result = None THEN storageDefaults[key] ELSE result[1], store |-> st]

\* getStorageWithDefault(key): the value it returns and the store it leaves.
getStorageWithDefault(st, key) ==
  LET result == st[key]
      Written(value) == [value |-> value, store |-> setStorage(st, key, value)]
      Normalized(normalized) ==
        [value |-> normalized.list,
         store |-> IF normalized.changed THEN setStorage(st, "whitelist", normalized.list) ELSE st]
  IN IF key = "stats" /\ result # None /\ result[1].date # getTodayString
     THEN Written([storageDefaults.stats EXCEPT !.date = getTodayString])
     ELSE IF key = "focusSession" /\ result # None /\ result[1].active /\ result[1].currentGoal = None
     THEN Written([result[1] EXCEPT !.active = FALSE, !.startedAt = None, !.breakUntil = None])
     ELSE IF key = "whitelist"
     THEN Normalized(normalizeWhitelist(result))
     ELSE [value |-> IF result = None THEN storageDefaults[key] ELSE result[1], store |-> st]

\* updateStorage(key, updates): the store it leaves.
updateStorage(st, key, updates) ==
  LET Write(current) == setStorage(current.store, key, Merge(current.value, updates))
  IN Write(getStorageWithDefault(st, key))

\* generateId(): `${Date.now()}-${Math.random().toString(36).slice(2, 9)}`.  The
\* random suffix is taken from a stream that does not repeat within a run: rnd
\* is the position in that stream.
generateId == ToString(now) \o "-" \o ToString(rnd)

(***************************************************************************)
(* src/src/background/index.ts: the blocking decision and the session      *)
(* operations.  An operation that awaits the store takes the store st it   *)
(* starts from and returns the store it leaves beside its result.          *)
(***************************************************************************)
\* shouldBlock as it would be if it asked only for a stored record, not for an
\* active one.
shouldBlock_IgnoreActive(st) ==
  LET s == getStorageWithDefault(st, "focusSession")
  IN [value |-> TRUE, store |-> s.store]

shouldBlock(st) ==
  LET Decide(s) ==
        IF ~s.value.active THEN [value |-> FALSE, store |-> s.store]
        ELSE IF s.value.currentGoal = None
        THEN [value |-> FALSE,
              store |-> IF s.value.active \/ s.value.breakUntil # None
                        THEN updateStorage(s.store, "focusSession",
                                           [active |-> FALSE, startedAt |-> None, breakUntil |-> None])
                        ELSE s.store]
        ELSE [value |-> TRUE, store |-> s.store]
  IN Decide(getStorageWithDefault(st, "focusSession"))

NewTabPages == {"about:newtab", "chrome://newtab/", "edge://newtab/"}

\* shouldBlockUrl as it would be if it looked at the session before the URL.
shouldBlockUrl_SessionFirst(st, url) ==
  LET b == shouldBlock(st)
      whitelist == getStorageWithDefault(b.store, "whitelist")
  IN IF ~b.value THEN [blocked |-> FALSE, reason |-> Some("focus-inactive"), store |-> b.store]
     ELSE IF url = "" \/ url = "about:blank"
     THEN [blocked |-> FALSE, reason |-> Some("empty-url"), store |-> b.store]
     ELSE IF includesBlockedPage[url]
     THEN [blocked |-> FALSE, reason |-> Some("blocked-page"), store |-> b.store]
     ELSE IF isUrlWhitelisted(url, whitelist.value)
     THEN [blocked |-> FALSE, reason |-> Some("whitelisted"), store |-> whitelist.store]
     ELSE [blocked |-> TRUE, reason |-> None, store |-> whitelist.store]

\* shouldBlockUrl as it would be if a new-tab page were decided on the session
\* alone, without a look at the whitelist.
shouldBlockUrl_NewTabOnSession(st, url) ==
  LET Session(b) ==
        IF ~b.value
        THEN [blocked |-> FALSE, reason |-> Some("focus-inactive"), store |-> b.store]
        ELSE [blocked |-> TRUE, reason |-> Some("newtab-blocked"), store |-> b.store]
      Page(b) ==
        LET Listed(whitelist) ==
              IF isUrlWhitelisted(url, whitelist.value)
              THEN [blocked |-> FALSE, reason |-> Some("whitelisted"), store |-> whitelist.store]
              ELSE [blocked |-> TRUE, reason |-> None, store |-> whitelist.store]
        IN IF ~b.value
           THEN [blocked |-> FALSE, reason |-> Some("focus-inactive"), store |-> b.store]
           ELSE Listed(getStorageWithDefault(b.store, "whitelist"))
  IN IF url = "" \/ url = "about:blank"
     THEN [blocked |-> FALSE, reason |-> Some("empty-url"), store |-> st]
     ELSE IF includesBlockedPage[url]
     THEN [blocked |-> FALSE, reason |-> Some("blocked-page"), store |-> st]
     ELSE IF url \in NewTabPages
     THEN Session(shouldBlock(st))
     ELSE Page(shouldBlock(st))

\* reason is None where the code returns no reason.
shouldBlockUrl(st, url) ==
  LET NewTab(whitelist) ==
        LET Session(b) ==
              IF ~b.value
              THEN [blocked |-> FALSE, reason |-> Some("focus-inactive"), store |-> b.store]
              ELSE [blocked |-> TRUE, reason |-> Some("newtab-blocked"), store |-> b.store]
        IN IF isUrlWhitelisted(url, whitelist.value)
           THEN [blocked |-> FALSE, reason |-> Some("whitelisted"), store |-> whitelist.store]
           ELSE Session(shouldBlock(whitelist.store))
      Page(b) ==
        LET Listed(whitelist) ==
              IF isUrlWhitelisted(url, whitelist.value)
              THEN [blocked |-> FALSE, reason |-> Some("whitelisted"), store |-> whitelist.store]
              ELSE [blocked |-> TRUE, reason |-> None, store |-> whitelist.store]
        IN IF ~b.value
           THEN [blocked |-> FALSE, reason |-> Some("focus-inactive"), store |-> b.store]
           ELSE Listed(getStorageWithDefault(b.store, "whitelist"))
  IN IF url = "" \/ url = "about:blank"
     THEN [blocked |-> FALSE, reason |-> Some("empty-url"), store |-> st]
     ELSE IF includesBlockedPage[url]
     THEN [blocked |-> FALSE, reason |-> Some("blocked-page"), store |-> st]
     ELSE IF url \in NewTabPages
     THEN NewTab(getStorageWithDefault(st, "whitelist"))
     ELSE Page(shouldBlock(st))

\* updateBadge(): the badge text it sets and the store it leaves.
updateBadge(st) ==
  LET Show(s) == [badge |-> IF s.value.active /\ s.value.currentGoal # None THEN "ON" ELSE "", store |-> s.store]
  IN Show(getStorageWithDefault(st, "focusSession"))

\* handleNavigation(details): redirect is None or Some([tabId, url]).
handleNavigation(st, details, lbu) ==
  LET Decided(d) ==
        LET Count(stats) ==
              [store |-> updateStorage(stats.store, "stats",
                                       [blockedAttempts |-> stats.value.blockedAttempts + 1]),
               lastBlockedUrl |-> details.url,
               redirect |-> Some([tabId |-> details.tabId, url |-> blockedPageUrl[details.url]]),
               evaluated |-> TRUE, blocked |-> TRUE]
        IN IF d.blocked
           THEN Count(getStorageWithDefault(d.store, "stats"))
           ELSE [store |-> d.store, lastBlockedUrl |-> lbu, redirect |-> None,
                 evaluated |-> TRUE, blocked |-> FALSE]
  IN IF details.frameId # 0
     THEN [store |-> st, lastBlockedUrl |-> lbu, redirect |-> None, evaluated |-> FALSE, blocked |-> FALSE]
     ELSE Decided(shouldBlockUrl(st, details.url))

\* startFocus as it would be if the id were the timestamp alone.
startFocus_StaleId(st, goalText) ==
  LET goal == [id |-> ToString(now), text |-> goalText, createdAt |-> now, completedAt |-> None]
      session == [active |-> TRUE, startedAt |-> Some(now), currentGoal |-> Some(goal), breakUntil |-> None]
      b == updateBadge(setStorage(st, "focusSession", session))
  IN [session |-> session, store |-> b.store, badge |-> b.badge]

\* startFocus(goalText): the session it returns, the store and the badge it leaves.
startFocus(st, goalText) ==
  LET goal == [id |-> generateId, text |-> goalText, createdAt |-> now, completedAt |-> None]
      session == [active |-> TRUE, startedAt |-> Some(now), currentGoal |-> Some(goal), breakUntil |-> None]
      Started(b) == [session |-> session, store |-> b.store, badge |-> b.badge]
  IN Started(updateBadge(setStorage(st, "focusSession", session)))

\* checkCurrentTabOnFocusStart(): the active tab is tab, showing url.
checkCurrentTabOnFocusStart(st, tab, url) ==
  LET Decided(d) ==
        [store |-> d.store,
         redirect |-> IF d.blocked THEN Some([tabId |-> tab, url |-> blockedPageUrl[url]]) ELSE None]
  IN IF url = "" \/ isSpecialPage[url] THEN [store |-> st, redirect |-> None]
     ELSE Decided(shouldBlockUrl(st, url))

\* The body of completeTask, with its three places a slip would change: whether
\* the session is cleared, whether a call outside Focusing counts a task, and
\* how the minutes are rounded.
completeTask_Variant(st, bdg, clears, countsAlways, roundsUp) ==
  LET s == getStorageWithDefault(st, "focusSession")
      session == s.value
  IN IF ~session.active \/ session.currentGoal = None
     THEN IF countsAlways
          THEN LET stats == getStorageWithDefault(s.store, "stats")
               IN [success |-> FALSE,
                   store |-> updateStorage(stats.store, "stats",
                                           [completedTasks |-> stats.value.completedTasks + 1]),
                   badge |-> bdg]
          ELSE [success |-> FALSE, store |-> s.store, badge |-> bdg]
     ELSE LET elapsed == now - session.startedAt[1]
              focusDuration == IF roundsUp THEN (elapsed + MsPerMinute - 1) \div MsPerMinute
                               ELSE elapsed \div MsPerMinute
              stats == getStorageWithDefault(s.store, "stats")
              st1 == updateStorage(stats.store, "stats",
                                   [completedTasks |-> stats.value.completedTasks + 1,
                                    focusMinutes |-> stats.value.focusMinutes + focusDuration])
              completedGoal == [session.currentGoal[1] EXCEPT !.completedAt = Some(now)]
              completedGoals == getStorageWithDefault(st1, "completedGoals")
              st2 == setStorage(completedGoals.store, "completedGoals",
                                Append(completedGoals.value, completedGoal))
              st3 == IF clears
                     THEN updateStorage(st2, "focusSession",
                                        [active |-> FALSE, startedAt |-> None,
                                         currentGoal |-> None, breakUntil |-> None])
                     ELSE st2
              b == updateBadge(st3)
          IN [success |-> TRUE, store |-> b.store, badge |-> b.badge]

\* completeTask as it would be if it left the session active.
completeTask_KeepActive(st, bdg) == completeTask_Variant(st, bdg, FALSE, FALSE, FALSE)

\* completeTask as it would be if a call outside Focusing counted a task.
completeTask_CountAlways(st, bdg) == completeTask_Variant(st, bdg, TRUE, TRUE, FALSE)

\* completeTask as it would be if the focus minutes were rounded up.
completeTask_RoundUp(st, bdg) == completeTask_Variant(st, bdg, TRUE, FALSE, TRUE)

\* completeTask(): what it returns, the store and the badge it leaves.
completeTask(st, bdg) ==
  LET Session(s) ==
        LET session == s.value
            focusDuration == IF session.startedAt # None /\ session.startedAt[1] # 0
                             THEN (now - session.startedAt[1]) \div MsPerMinute ELSE 0
            completedGoal == [session.currentGoal[1] EXCEPT !.completedAt = Some(now)]
            Done(b) == [success |-> TRUE, store |-> b.store, badge |-> b.badge]
            Goals(completedGoals) ==
              Done(updateBadge(
                     updateStorage(
                       setStorage(completedGoals.store, "completedGoals",
                                  Append(completedGoals.value, completedGoal)),
                       "focusSession",
                       [active |-> FALSE, startedAt |-> None, currentGoal |-> None, breakUntil |-> None])))
            Stats(stats) ==
              Goals(getStorageWithDefault(
                      updateStorage(stats.store, "stats",
                                    [completedTasks |-> stats.value.completedTasks + 1,
                                     focusMinutes |-> stats.value.focusMinutes + focusDuration]),
                      "completedGoals"))
        IN IF ~session.active \/ session.currentGoal = None
           THEN [success |-> FALSE, store |-> s.store, badge |-> bdg]
           ELSE Stats(getStorageWithDefault(s.store, "stats"))
  IN Session(getStorageWithDefault(st, "focusSession"))

\* cancelFocus as it would be without its strict-mode check.
cancelFocus_IgnoreStrict(st, bdg) ==
  LET settings == getStorageWithDefault(st, "settings")
  IN updateBadge(setStorage(settings.store, "focusSession", idleSession))

\* cancelFocus as it would be if it cleared only the active flag.
cancelFocus_KeepGoal(st, bdg) ==
  LET settings == getStorageWithDefault(st, "settings")
  IN IF settings.value.strictMode THEN [store |-> settings.store, badge |-> bdg]
     ELSE updateBadge(updateStorage(settings.store, "focusSession", [active |-> FALSE]))

\* cancelFocus as it would be if it cleared the goal alone, leaving the session
\* active, and did not call updateBadge, whose read would repair the record.
cancelFocus_KeepActive(st, bdg) ==
  LET settings == getStorageWithDefault(st, "settings")
  IN IF settings.value.strictMode THEN [store |-> settings.store, badge |-> bdg]
     ELSE [store |-> updateStorage(settings.store, "focusSession", [currentGoal |-> None]), badge |-> bdg]

\* cancelFocus(): the store and the badge it leaves.
cancelFocus(st, bdg) ==
  LET Settings(settings) ==
        IF settings.value.strictMode THEN [store |-> settings.store, badge |-> bdg]
        ELSE updateBadge(setStorage(settings.store, "focusSession", idleSession))
  IN Settings(getStorageWithDefault(st, "settings"))

\* handleTabActivated as it would be if it decided every page a tab shows, the
\* special pages included.
handleTabActivated_NoSkip(st, tab, url) ==
  LET Decided(d) ==
        [store |-> d.store,
         redirect |-> IF d.blocked THEN Some([tabId |-> tab, url |-> blockedPageUrl[url]]) ELSE None]
      Session(b) ==
        IF ~b.value THEN [store |-> b.store, redirect |-> None]
        ELSE IF url = "" THEN [store |-> b.store, redirect |-> None]
        ELSE Decided(shouldBlockUrl(b.store, url))
  IN Session(shouldBlock(st))

\* handleTabActivated(activeInfo): the tab shows url ("" when it has none yet).
handleTabActivated(st, tab, url) ==
  LET Decided(d) ==
        [store |-> d.store,
         redirect |-> IF d.blocked THEN Some([tabId |-> tab, url |-> blockedPageUrl[url]]) ELSE None]
      Session(b) ==
        IF ~b.value THEN [store |-> b.store, redirect |-> None]
        ELSE IF url = "" THEN [store |-> b.store, redirect |-> None]
        ELSE IF isSpecialPage[url] \/ includesBlockedPage[url]
        THEN [store |-> b.store, redirect |-> None]
        ELSE Decided(shouldBlockUrl(b.store, url))
  IN Session(shouldBlock(st))

\* handleTabUpdate(tabId, changeInfo, tab): changeInfo.url is None or Some(url);
\* wouldBlock is what it logs.
handleTabUpdate(st, changeInfo, tabActive) ==
  LET Decided(d) == [store |-> d.store, wouldBlock |-> d.blocked]
      Session(b) ==
        IF ~b.value THEN [store |-> b.store, wouldBlock |-> FALSE]
        ELSE IF tabActive THEN [store |-> b.store, wouldBlock |-> FALSE]
        ELSE IF isSpecialPage[changeInfo.url[1]] \/ includesBlockedPage[changeInfo.url[1]]
        THEN [store |-> b.store, wouldBlock |-> FALSE]
        ELSE Decided(shouldBlockUrl(b.store, changeInfo.url[1]))
  IN IF changeInfo.status # "complete" \/ changeInfo.url = None \/ changeInfo.url = Some("")
     THEN [store |-> st, wouldBlock |-> FALSE]
     ELSE Session(shouldBlock(st))

(***************************************************************************)
(* The message handlers registered with onMessage                          *)
(* (src/src/background/index.ts, 374-477): each returns its response (out) *)
(* and what it leaves behind.                                              *)
(***************************************************************************)
\* currentTab is what tabs.query({ active: true, currentWindow: true }) finds.
START_FOCUS(st, payload, currentTab) ==
  LET Started(s) ==
        LET Checked(c) ==
              [out |-> [success |-> TRUE, session |-> Some(s.session)],
               store |-> c.store, badge |-> s.badge, redirect |-> c.redirect]
        IN Checked(checkCurrentTabOnFocusStart(s.store, currentTab.id, currentTab.url))
  IN Started(startFocus(st, payload.goalText))

COMPLETE_TASK(st) ==
  LET Answer(c) == [out |-> [success |-> c.success], store |-> c.store, badge |-> c.badge]
  IN Answer(completeTask(st, badge))

CANCEL_FOCUS(st) ==
  LET Cancelled(c) == [out |-> [success |-> TRUE], store |-> c.store, badge |-> c.badge]
      Settings(settings) ==
        IF settings.value.strictMode
        THEN [out |-> [success |-> FALSE], store |-> settings.store, badge |-> badge]
        ELSE Cancelled(cancelFocus(settings.store, badge))
  IN Settings(getStorageWithDefault(st, "settings"))

GET_FOCUS_STATE(st) ==
  LET Session(s) ==
        LET Blocking(b) == [out |-> [session |-> s.value, isBlocking |-> b.value], store |-> b.store]
        IN Blocking(shouldBlock(s.store))
  IN Session(getStorageWithDefault(st, "focusSession"))

ADD_WHITELIST(st, payload) ==
  LET newPattern == [id |-> generateId, pattern |-> payload.pattern, label |-> payload.label, enabled |-> TRUE]
      Add(whitelist) ==
        [out |-> [success |-> TRUE, pattern |-> newPattern],
         store |-> setStorage(whitelist.store, "whitelist", Append(whitelist.value, newPattern))]
  IN Add(getStorageWithDefault(st, "whitelist"))

\* whitelist.filter((p) => p.id !== id)
RemoveId(list, id) == SelectSeq(list, LAMBDA p : p.id # id)

REMOVE_WHITELIST(st, payload) ==
  LET Remove(whitelist) ==
        [out |-> [success |-> TRUE],
         store |-> setStorage(whitelist.store, "whitelist", RemoveId(whitelist.value, payload.id))]
  IN Remove(getStorageWithDefault(st, "whitelist"))

\* whitelist.map((p) => (p.id === id ? { ...p, enabled } : p))
SetEnabled(list, id, enabled) ==
  [i \in 1..Len(list) |-> IF list[i].id = id THEN [list[i] EXCEPT !.enabled = enabled] ELSE list[i]]

TOGGLE_WHITELIST(st, payload) ==
  LET Toggle(whitelist) ==
        [out |-> [success |-> TRUE],
         store |-> setStorage(whitelist.store, "whitelist",
                              SetEnabled(whitelist.value, payload.id, payload.enabled))]
  IN Toggle(getStorageWithDefault(st, "whitelist"))

GET_WHITELIST(st) ==
  LET Answer(whitelist) == [out |-> [patterns |-> whitelist.value], store |-> whitelist.store]
  IN Answer(getStorageWithDefault(st, "whitelist"))

\* CHECK_URL as it would be if a blocked answer were counted like a blocked
\* commit.
CHECK_URL_Counting(st, payload) ==
  LET Counted(result, stats) ==
        [out |-> [allowed |-> ~result.blocked, reason |-> result.reason],
         store |-> IF result.blocked
                   THEN updateStorage(stats.store, "stats", [blockedAttempts |-> stats.value.blockedAttempts + 1])
                   ELSE result.store]
      Answer(result) == Counted(result, getStorageWithDefault(result.store, "stats"))
  IN Answer(shouldBlockUrl(st, payload.url))

CHECK_URL(st, payload) ==
  LET Answer(result) ==
        [out |-> [allowed |-> ~result.blocked, reason |-> result.reason], store |-> result.store]
  IN Answer(shouldBlockUrl(st, payload.url))

GET_SETTINGS(st) ==
  LET Answer(settings) == [out |-> [settings |-> settings.value], store |-> settings.store]
  IN Answer(getStorageWithDefault(st, "settings"))

UPDATE_SETTINGS(st, updates) ==
  [out |-> [success |-> TRUE], store |-> updateStorage(st, "settings", updates)]

GET_STATS(st) ==
  LET Answer(stats) == [out |-> [stats |-> stats.value], store |-> stats.store]
  IN Answer(getStorageWithDefault(st, "stats"))

GET_BLOCKED_INFO(st) ==
  LET Answer(s) == [out |-> [goal |-> s.value.currentGoal, blockedUrl |-> lastBlockedUrl], store |-> s.store]
  IN Answer(getStorageWithDefault(st, "focusSession"))

(***************************************************************************)
(* src/unnamed/part_005: onMessage, the listener that dispatches a message *)
(* to its handler.  A message is None when it is no object or has no type, *)
(* else a record of its type and its payload (None when undefined).        *)
(***************************************************************************)
\* The keys of the handlers object index.ts registers.
HandlerTypes ==
  {"START_FOCUS", "COMPLETE_TASK", "CANCEL_FOCUS", "GET_FOCUS_STATE", "ADD_WHITELIST",
   "REMOVE_WHITELIST", "TOGGLE_WHITELIST", "GET_WHITELIST", "CHECK_URL", "GET_SETTINGS",
   "UPDATE_SETTINGS", "GET_STATS", "GET_BLOCKED_INFO"}

\* Members the handlers object inherits from Object.prototype: handlers[type]
\* finds them as it finds its own keys.
InheritedTypes == {"constructor", "toString", "valueOf"}

\* The handlers that destructure their payload: called without one, the async
\* function rejects before its first statement.
DestructuringTypes == {"START_FOCUS", "ADD_WHITELIST", "REMOVE_WHITELIST", "TOGGLE_WHITELIST", "CHECK_URL"}

\* The promise a registered handler returns: fulfilled with out, or rejected,
\* and the store it leaves.
Fulfilled(r) == [rejected |-> FALSE, out |-> r.out, store |-> r.store]

Rejected(st) == [rejected |-> TRUE, store |-> st]

\* UPDATE_SETTINGS without payload: updateStorage writes the settings it read,
\* then Object.keys(undefined) throws (index.ts 449-454).
UpdateNothing(settings) == Rejected(setStorage(settings.store, "settings", settings.value))

CallHandler(st, type, payload, currentTab) ==
  IF payload = None /\ type \in DestructuringTypes THEN Rejected(st)
  ELSE IF type = "UPDATE_SETTINGS" /\ payload = None
  THEN UpdateNothing(getStorageWithDefault(st, "settings"))
  ELSE CASE type = "START_FOCUS" -> Fulfilled(START_FOCUS(st, payload[1], currentTab))
         [] type = "COMPLETE_TASK" -> Fulfilled(COMPLETE_TASK(st))
         [] type = "CANCEL_FOCUS" -> Fulfilled(CANCEL_FOCUS(st))
         [] type = "GET_FOCUS_STATE" -> Fulfilled(GET_FOCUS_STATE(st))
         [] type = "ADD_WHITELIST" -> Fulfilled(ADD_WHITELIST(st, payload[1]))
         [] type = "REMOVE_WHITELIST" -> Fulfilled(REMOVE_WHITELIST(st, payload[1]))
         [] type = "TOGGLE_WHITELIST" -> Fulfilled(TOGGLE_WHITELIST(st, payload[1]))
         [] type = "GET_WHITELIST" -> Fulfilled(GET_WHITELIST(st))
         [] type = "CHECK_URL" -> Fulfilled(CHECK_URL(st, payload[1]))
         [] type = "GET_SETTINGS" -> Fulfilled(GET_SETTINGS(st))
         [] type = "UPDATE_SETTINGS" -> Fulfilled(UPDATE_SETTINGS(st, payload[1]))
         [] type = "GET_STATS" -> Fulfilled(GET_STATS(st))
         [] type = "GET_BLOCKED_INFO" -> Fulfilled(GET_BLOCKED_INFO(st))

\* result.then(sendResponse).catch(... sendResponse({ success: false, error })).
Settled(promise) ==
  [responses |-> IF promise.rejected THEN <<[success |-> FALSE, error |-> "TypeError"]>>
                 ELSE <<promise.out>>,
   store |-> promise.store]

\* The listener: the responses it sends for message and the store it leaves.
\* Object.prototype.constructor returns an object and toString a string, which
\* are sent as the response; valueOf throws on the undefined receiver.
onMessage(st, message, currentTab) ==
  IF message = None THEN [responses |-> <<>>, store |-> st]
  ELSE IF message[1].type \in HandlerTypes
  THEN Settled(CallHandler(st, message[1].type, message[1].payload, currentTab))
  ELSE IF message[1].type = "constructor" THEN [responses |-> <<[object |-> message[1].payload]>>, store |-> st]
  ELSE IF message[1].type = "toString" THEN [responses |-> <<"[object Undefined]">>, store |-> st]
  ELSE [responses |-> <<>>, store |-> st]

(***************************************************************************)
(* The events the model draws: what the user and the browser can send.     *)
(***************************************************************************)
\* The goal text START_FOCUS carries.
GoalTexts == {"Write report"}

\* Goal texts that are empty after trimming.
BlankTexts == {"", "  "}

\* The break length the options page sends when its input holds no number.
DefaultBreakDuration == 5

\* The updates UPDATE_SETTINGS carries: single fields, and what saveSettings of
\* the options page sends (src/src/blocked/index.ts, 327-336).
SettingsUpdates ==
  {[strictMode |-> TRUE], [strictMode |-> FALSE], [theme |-> "dark"],
   [breakDuration |-> DefaultBreakDuration, strictMode |-> FALSE]}

\* The ids REMOVE_WHITELIST and TOGGLE_WHITELIST name: a protected default and
\* the entries the user added.
StoredIds == IF store.whitelist = None THEN {} ELSE {store.whitelist[1][i].id : i \in 1..Len(store.whitelist[1])}

TargetIds == {"chrome-internal"} \cup {id \in StoredIds : id \notin {defaultWhitelist[i].id : i \in 1..Len(defaultWhitelist)}}

\* A session record that breaks "active implies a goal", as a partial write or
\* an earlier version of the extension can leave it: the record the reads of
\* storage.ts (194-206) and shouldBlock (index.ts, 32-41) repair.
anomalousSession == [active |-> TRUE, startedAt |-> Some(StartNow), currentGoal |-> None, breakUntil |-> None]

\* The calls a run of the interleaved handlers can hold.
MaxCalls == 2

CallIds == 1..MaxCalls

\* No handler is suspended.  blocked and completed count the commits decided
\* blocked and the completeTask calls that returned true; base holds the
\* counters stored when the count began.
NoCalls ==
  [calls |-> [c \in CallIds |-> [pc |-> "idle"]], blocked |-> 0, completed |-> 0,
   base |-> [blockedAttempts |-> 0, completedTasks |-> 0]]

(***************************************************************************)
(* Init: the background script has just been loaded on an empty store (a   *)
(* fresh install) or on a store whose session record is anomalous (an      *)
(* upgrade); no event has been handled and the badge is still empty.       *)
(***************************************************************************)
Init ==
  /\ store \in {[settings |-> None, whitelist |-> None, focusSession |-> f, stats |-> None, completedGoals |-> None] :
                 f \in {None, Some(anomalousSession)}}
  /\ now = StartNow
  /\ loadDay = StartNow \div MsPerDay
  /\ rnd = 0
  /\ events = 0
  /\ lastBlockedUrl = ""
  /\ badge = ""
  /\ inflight = NoCalls

\* An event that counts towards MaxEvents happens.
Counted == events < MaxEvents /\ events' = events + 1

\* webNavigation.onCommitted: tab t has committed url in frame f.
NavigationCommitted ==
  \E t \in TabIds, u \in NavUrls, f \in {0, 1} :
    LET Handled(r) ==
          /\ IF r.blocked THEN Counted ELSE events' = events
          /\ store' = r.store
          /\ lastBlockedUrl' = r.lastBlockedUrl
          /\ UNCHANGED <<inflight, now, loadDay, rnd, badge>>
    IN Handled(handleNavigation(store, [tabId |-> t, url |-> u, frameId |-> f], lastBlockedUrl))

\* tabs.onActivated: the user switches to tab t, which shows u.
TabActivated ==
  \E t \in TabIds, u \in TabUrls :
    /\ store' = handleTabActivated(store, t, u).store
    /\ UNCHANGED <<inflight, now, loadDay, rnd, events, lastBlockedUrl, badge>>

\* tabs.onUpdated: a tab reports a change of status or URL.
TabUpdated ==
  \E status \in {"loading", "complete"}, u \in {None, Some(UnrelatedUrl)}, active \in BOOLEAN :
    /\ store' = handleTabUpdate(store, [status |-> status, url |-> u], active).store
    /\ UNCHANGED <<inflight, now, loadDay, rnd, events, lastBlockedUrl, badge>>

StartFocusMsg ==
  \E goalText \in GoalTexts, t \in TabIds, u \in TabUrls :
    LET Handled(r) ==
          /\ Counted
          /\ rnd' = rnd + 1
          /\ store' = r.store
          /\ badge' = r.badge
          /\ UNCHANGED <<inflight, now, loadDay, lastBlockedUrl>>
    IN Handled(START_FOCUS(store, [goalText |-> goalText], [id |-> t, url |-> u]))

CompleteTaskMsg ==
  LET Handled(r) ==
        /\ Counted
        /\ store' = r.store
        /\ badge' = r.badge
        /\ UNCHANGED <<inflight, now, loadDay, rnd, lastBlockedUrl>>
  IN Handled(COMPLETE_TASK(store))

CancelFocusMsg ==
  LET Handled(r) ==
        /\ Counted
        /\ store' = r.store
        /\ badge' = r.badge
        /\ UNCHANGED <<inflight, now, loadDay, rnd, lastBlockedUrl>>
  IN Handled(CANCEL_FOCUS(store))

GetFocusStateMsg ==
  /\ store' = GET_FOCUS_STATE(store).store
  /\ UNCHANGED <<inflight, now, loadDay, rnd, events, lastBlockedUrl, badge>>

AddWhitelistMsg ==
  \E pattern \in AddPatterns :
    /\ Counted
    /\ rnd' = rnd + 1
    /\ store' = ADD_WHITELIST(store, [pattern |-> pattern, label |-> "Site"]).store
    /\ UNCHANGED <<inflight, now, loadDay, lastBlockedUrl, badge>>

RemoveWhitelistMsg ==
  \E id \in TargetIds :
    /\ Counted
    /\ store' = REMOVE_WHITELIST(store, [id |-> id]).store
    /\ UNCHANGED <<inflight, now, loadDay, rnd, lastBlockedUrl, badge>>

ToggleWhitelistMsg ==
  \E id \in TargetIds, enabled \in BOOLEAN :
    /\ Counted
    /\ store' = TOGGLE_WHITELIST(store, [id |-> id, enabled |-> enabled]).store
    /\ UNCHANGED <<inflight, now, loadDay, rnd, lastBlockedUrl, badge>>

GetWhitelistMsg ==
  /\ store' = GET_WHITELIST(store).store
  /\ UNCHANGED <<inflight, now, loadDay, rnd, events, lastBlockedUrl, badge>>

CheckUrlMsg ==
  \E u \in NavUrls :
    /\ store' = CHECK_URL(store, [url |-> u]).store
    /\ UNCHANGED <<inflight, now, loadDay, rnd, events, lastBlockedUrl, badge>>

GetSettingsMsg ==
  /\ store' = GET_SETTINGS(store).store
  /\ UNCHANGED <<inflight, now, loadDay, rnd, events, lastBlockedUrl, badge>>

UpdateSettingsMsg ==
  \E updates \in SettingsUpdates :
    /\ Counted
    /\ store' = UPDATE_SETTINGS(store, updates).store
    /\ UNCHANGED <<inflight, now, loadDay, rnd, lastBlockedUrl, badge>>

GetStatsMsg ==
  /\ store' = GET_STATS(store).store
  /\ UNCHANGED <<inflight, now, loadDay, rnd, events, lastBlockedUrl, badge>>

GetBlockedInfoMsg ==
  /\ store' = GET_BLOCKED_INFO(store).store
  /\ UNCHANGED <<inflight, now, loadDay, rnd, events, lastBlockedUrl, badge>>

\* Time passes between two events.
Tick ==
  /\ Counted
  /\ now' = now + TickMs
  /\ UNCHANGED <<inflight, store, loadDay, rnd, lastBlockedUrl, badge>>

\* The browser stops the idle background script and loads it again: the module
\* variables are initialised anew and updateBadge() runs (index.ts, 20 and 480).
WorkerRestart ==
  LET Loaded(b) ==
        /\ Counted
        /\ loadDay' = getTodayString
        /\ lastBlockedUrl' = ""
        /\ store' = b.store
        /\ badge' = b.badge
        /\ UNCHANGED <<inflight, now, rnd>>
  IN Loaded(updateBadge(store))

Next ==
  \/ NavigationCommitted
  \/ TabActivated
  \/ TabUpdated
  \/ StartFocusMsg
  \/ CompleteTaskMsg
  \/ CancelFocusMsg
  \/ GetFocusStateMsg
  \/ AddWhitelistMsg
  \/ RemoveWhitelistMsg
  \/ ToggleWhitelistMsg
  \/ GetWhitelistMsg
  \/ CheckUrlMsg
  \/ GetSettingsMsg
  \/ UpdateSettingsMsg
  \/ GetStatsMsg
  \/ GetBlockedInfoMsg
  \/ Tick
  \/ WorkerRestart

Spec == Init /\ [][Next]_vars

(***************************************************************************)
(* The handlers at the grain of their awaits.  An async handler runs until *)
(* its next await and other handlers run in between: a commit handled by   *)
(* handleNavigation and a completeTask call are here sequences of steps,   *)
(* one per read or write of the storage, and inflight holds the calls that *)
(* are under way with the values they have read.  The decision             *)
(* (shouldBlockUrl) and the two tab listeners touch no counter and are     *)
(* taken in one step.  The run starts in a Focusing session on one day:    *)
(* the clock does not move.                                                *)
(***************************************************************************)
FreshStore == [settings |-> None, whitelist |-> None, focusSession |-> None, stats |-> None, completedGoals |-> None]

\* The store START_FOCUS leaves on a fresh install.
FocusingStore ==
  START_FOCUS(FreshStore, [goalText |-> "Write report"], [id |-> 1, url |-> ""]).store

\* The same after one blocked commit has been handled.
CountedStore == handleNavigation(FocusingStore, [tabId |-> 1, url |-> UnrelatedUrl, frameId |-> 0], "").store

\* The counters of a stored stats record, zero when there is none.
CountersOf(stats) ==
  IF stats = None THEN [blockedAttempts |-> 0, completedTasks |-> 0]
  ELSE [blockedAttempts |-> stats[1].blockedAttempts, completedTasks |-> stats[1].completedTasks]

AwaitInit ==
  /\ now = StartNow
  /\ loadDay = StartNow \div MsPerDay
  /\ rnd = 1
  /\ events = 0
  /\ badge = "ON"
  /\ store \in {FocusingStore, CountedStore}
  /\ lastBlockedUrl = (IF store.stats = None THEN "" ELSE UnrelatedUrl)
  /\ inflight = [NoCalls EXCEPT !.base = CountersOf(store.stats)]

\* The call slot a new handler call takes, 0 when MaxCalls calls have begun.
FreeCall == Least({c \in CallIds : inflight.calls[c].pc = "idle"}, 0)

\* Call c is suspended at pc.
At(c, pc) == inflight.calls[c].pc = pc

\* Call c goes on with the local variables call.
Resume(c, call) == inflight' = [inflight EXCEPT !.calls[c] = call]

\* NavDecide as it would be if the tab were redirected as soon as the commit is
\* decided blocked, before the stats are counted.
NavDecide_RedirectFirst ==
  \E t \in TabIds, u \in NavUrls :
    LET Decided(c, d) ==
          /\ c # 0
          /\ store' = d.store
          /\ lastBlockedUrl' = (IF d.blocked THEN u ELSE lastBlockedUrl)
          /\ inflight' = [inflight EXCEPT
                            !.calls[c] = IF d.blocked
                                         THEN [pc |-> "nav:stats", tabId |-> t, url |-> u,
                                               redirect |-> Some([tabId |-> t, url |-> blockedPageUrl[u]])]
                                         ELSE [pc |-> "done", redirect |-> None],
                            !.blocked = IF d.blocked THEN @ + 1 ELSE @]
          /\ UNCHANGED <<now, loadDay, rnd, events, badge>>
    IN Decided(FreeCall, shouldBlockUrl(store, u))

\* index.ts 110-115: the commit is decided; a blocked one sets lastBlockedUrl.
NavDecide ==
  \E t \in TabIds, u \in NavUrls :
    LET Decided(c, d) ==
          /\ c # 0
          /\ store' = d.store
          /\ lastBlockedUrl' = (IF d.blocked THEN u ELSE lastBlockedUrl)
          /\ inflight' = [inflight EXCEPT
                            !.calls[c] = IF d.blocked THEN [pc |-> "nav:stats", tabId |-> t, url |-> u]
                                         ELSE [pc |-> "done", redirect |-> None],
                            !.blocked = IF d.blocked THEN @ + 1 ELSE @]
          /\ UNCHANGED <<now, loadDay, rnd, events, badge>>
    IN Decided(FreeCall, shouldBlockUrl(store, u))

\* index.ts 118: const stats = await getStorageWithDefault('stats').
NavReadStats ==
  \E c \in CallIds :
    LET Read(call, r) ==
          /\ store' = r.store
          /\ Resume(c, [pc |-> "nav:current", tabId |-> call.tabId, url |-> call.url, stats |-> r.value])
          /\ UNCHANGED <<now, loadDay, rnd, events, lastBlockedUrl, badge>>
    IN At(c, "nav:stats") /\ Read(inflight.calls[c], getStorageWithDefault(store, "stats"))

\* index.ts 119, storage.ts 236: updateStorage reads the current record.
NavReadCurrent ==
  \E c \in CallIds :
    LET Read(call, r) ==
          /\ store' = r.store
          /\ Resume(c, [pc |-> "nav:write", tabId |-> call.tabId, url |-> call.url,
                        stats |-> call.stats, current |-> r.value])
          /\ UNCHANGED <<now, loadDay, rnd, events, lastBlockedUrl, badge>>
    IN At(c, "nav:current") /\ Read(inflight.calls[c], getStorageWithDefault(store, "stats"))

\* index.ts 119, storage.ts 237-238: the merged record is written.
NavWriteStats ==
  \E c \in CallIds :
    LET Write(call) ==
          /\ store' = setStorage(store, "stats",
                                 Merge(call.current, [blockedAttempts |-> call.stats.blockedAttempts + 1]))
          /\ Resume(c, [pc |-> "nav:redirect", tabId |-> call.tabId, url |-> call.url])
          /\ UNCHANGED <<now, loadDay, rnd, events, lastBlockedUrl, badge>>
    IN At(c, "nav:write") /\ Write(inflight.calls[c])

\* index.ts 122-124: the tab is redirected and the handler returns.
NavRedirect ==
  \E c \in CallIds :
    LET Redirect(call) ==
          /\ Resume(c, [pc |-> "done",
                        redirect |-> Some([tabId |-> call.tabId, url |-> blockedPageUrl[call.url]])])
          /\ UNCHANGED <<store, now, loadDay, rnd, events, lastBlockedUrl, badge>>
    IN At(c, "nav:redirect") /\ Redirect(inflight.calls[c])

\* index.ts 205-212: completeTask reads the session; outside Focusing it
\* returns false.
TaskReadSession ==
  LET Read(c, s) ==
        /\ c # 0
        /\ store' = s.store
        /\ Resume(c, IF ~s.value.active \/ s.value.currentGoal = None
                     THEN [pc |-> "done", success |-> FALSE]
                     ELSE [pc |-> "task:stats", goal |-> s.value.currentGoal[1],
                           focusDuration |-> IF s.value.startedAt # None /\ s.value.startedAt[1] # 0
                                             THEN (now - s.value.startedAt[1]) \div MsPerMinute ELSE 0])
        /\ UNCHANGED <<now, loadDay, rnd, events, lastBlockedUrl, badge>>
  IN Read(FreeCall, getStorageWithDefault(store, "focusSession"))

\* index.ts 215: const stats = await getStorageWithDefault('stats').
TaskReadStats ==
  \E c \in CallIds :
    LET Read(call, r) ==
          /\ store' = r.store
          /\ Resume(c, [pc |-> "task:current", goal |-> call.goal, focusDuration |-> call.focusDuration,
                        stats |-> r.value])
          /\ UNCHANGED <<now, loadDay, rnd, events, lastBlockedUrl, badge>>
    IN At(c, "task:stats") /\ Read(inflight.calls[c], getStorageWithDefault(store, "stats"))

\* index.ts 216, storage.ts 236: updateStorage reads the current record.
TaskReadCurrent ==
  \E c \in CallIds :
    LET Read(call, r) ==
          /\ store' = r.store
          /\ Resume(c, [pc |-> "task:write", goal |-> call.goal, focusDuration |-> call.focusDuration,
                        stats |-> call.stats, current |-> r.value])
          /\ UNCHANGED <<now, loadDay, rnd, events, lastBlockedUrl, badge>>
    IN At(c, "task:current") /\ Read(inflight.calls[c], getStorageWithDefault(store, "stats"))

\* index.ts 216-219, storage.ts 237-238: the merged record is written.
TaskWriteStats ==
  \E c \in CallIds :
    LET Write(call) ==
          /\ store' = setStorage(store, "stats",
                                 Merge(call.current,
                                       [completedTasks |-> call.stats.completedTasks + 1,
                                        focusMinutes |-> call.stats.focusMinutes + call.focusDuration]))
          /\ Resume(c, [pc |-> "task:goals", goal |-> call.goal])
          /\ UNCHANGED <<now, loadDay, rnd, events, lastBlockedUrl, badge>>
    IN At(c, "task:write") /\ Write(inflight.calls[c])

\* index.ts 222-227: the history is read.
TaskReadGoals ==
  \E c \in CallIds :
    LET Read(call, r) ==
          /\ store' = r.store
          /\ Resume(c, [pc |-> "task:history", goal |-> call.goal, completedGoals |-> r.value])
          /\ UNCHANGED <<now, loadDay, rnd, events, lastBlockedUrl, badge>>
    IN At(c, "task:goals") /\ Read(inflight.calls[c], getStorageWithDefault(store, "completedGoals"))

\* index.ts 228: the history is written with the completed goal appended.
TaskWriteGoals ==
  \E c \in CallIds :
    LET Write(call) ==
          /\ store' = setStorage(store, "completedGoals",
                                 Append(call.completedGoals, [call.goal EXCEPT !.completedAt = Some(now)]))
          /\ Resume(c, [pc |-> "task:session", goal |-> call.goal])
          /\ UNCHANGED <<now, loadDay, rnd, events, lastBlockedUrl, badge>>
    IN At(c, "task:history") /\ Write(inflight.calls[c])

\* index.ts 231, storage.ts 236: updateStorage reads the current session.
TaskReadCurrentSession ==
  \E c \in CallIds :
    LET Read(call, r) ==
          /\ store' = r.store
          /\ Resume(c, [pc |-> "task:end", goal |-> call.goal, current |-> r.value])
          /\ UNCHANGED <<now, loadDay, rnd, events, lastBlockedUrl, badge>>
    IN At(c, "task:session") /\ Read(inflight.calls[c], getStorageWithDefault(store, "focusSession"))

\* index.ts 231-236, storage.ts 237-238: the session is written as ended.
TaskWriteSession ==
  \E c \in CallIds :
    LET Write(call) ==
          /\ store' = setStorage(store, "focusSession",
                                 Merge(call.current,
                                       [active |-> FALSE, startedAt |-> None,
                                        currentGoal |-> None, breakUntil |-> None]))
          /\ Resume(c, [pc |-> "task:badge"])
          /\ UNCHANGED <<now, loadDay, rnd, events, lastBlockedUrl, badge>>
    IN At(c, "task:end") /\ Write(inflight.calls[c])

\* index.ts 238-241: updateBadge, and completeTask returns true.
TaskUpdateBadge ==
  \E c \in CallIds :
    LET Shown(b) ==
          /\ store' = b.store
          /\ badge' = b.badge
          /\ inflight' = [inflight EXCEPT !.calls[c] = [pc |-> "done", success |-> TRUE],
                                          !.completed = @ + 1]
          /\ UNCHANGED <<now, loadDay, rnd, events, lastBlockedUrl>>
    IN At(c, "task:badge") /\ Shown(updateBadge(store))

AwaitNext ==
  \/ NavDecide
  \/ NavReadStats
  \/ NavReadCurrent
  \/ NavWriteStats
  \/ NavRedirect
  \/ TaskReadSession
  \/ TaskReadStats
  \/ TaskReadCurrent
  \/ TaskWriteStats
  \/ TaskReadGoals
  \/ TaskWriteGoals
  \/ TaskReadCurrentSession
  \/ TaskWriteSession
  \/ TaskUpdateBadge
  \/ TabActivated
  \/ TabUpdated

AwaitSpec == AwaitInit /\ [][AwaitNext]_vars

(***************************************************************************)
(* Store failures.  A read or a write of the storage can reject; the await *)
(* then throws inside the handler.  handleNavigation has no try/catch, so  *)
(* the call ends there with a rejected promise; handleTabActivated catches *)
(* the error, logs it and returns.  Either way the statements after the    *)
(* failed await are not run, and the listeners stay registered.  The       *)
(* commit handler is taken at the grain of its awaits as above, and        *)
(* handleTabActivated in the same way.                                     *)
(***************************************************************************)

\* The stores a call of shouldBlockUrl(url) can leave when one of its reads
\* fails: the store as it was, or as the reads before the failed one left it.
\* It is empty for the URLs decided without a read.
DecideFailures(st, url) ==
  LET AfterList(whitelist) ==
        {st} \cup (IF isUrlWhitelisted(url, whitelist.value) THEN {} ELSE {whitelist.store})
      AfterSession(b) == {st} \cup (IF b.value THEN {b.store} ELSE {})
  IN IF url = "" \/ url = "about:blank" \/ includesBlockedPage[url] THEN {}
     ELSE IF url \in NewTabPages THEN AfterList(getStorageWithDefault(st, "whitelist"))
     ELSE AfterSession(shouldBlock(st))

\* The redirect a call has issued so far.
IssuedBy(call) == IF "redirect" \in DOMAIN call THEN call.redirect ELSE None

\* index.ts 113: the await of shouldBlockUrl throws; nothing after it runs.
NavDecideFails ==
  \E t \in TabIds, u \in NavUrls :
    LET Failed(c) ==
          /\ c # 0
          /\ store' \in DecideFailures(store, u)
          /\ Resume(c, [pc |-> "failed", redirect |-> None])
          /\ UNCHANGED <<now, loadDay, rnd, events, lastBlockedUrl, badge>>
    IN Failed(FreeCall)

\* index.ts 273-299: handleTabActivated reads the session, gets the tab and
\* skips the tabs without URL and the special pages.
ActivatedReadSession ==
  \E t \in TabIds, u \in TabUrls :
    LET Read(c, b) ==
          /\ c # 0
          /\ store' = b.store
          /\ Resume(c, IF ~b.value \/ u = "" \/ isSpecialPage[u] \/ includesBlockedPage[u]
                       THEN [pc |-> "done", redirect |-> None]
                       ELSE [pc |-> "act:decide", tabId |-> t, url |-> u])
          /\ UNCHANGED <<now, loadDay, rnd, events, lastBlockedUrl, badge>>
    IN Read(FreeCall, shouldBlock(store))

\* index.ts 275, 314-316: the session read throws and the catch logs it.
ActivatedReadFails ==
  LET Failed(c) ==
        /\ c # 0
        /\ Resume(c, [pc |-> "failed", redirect |-> None])
        /\ UNCHANGED <<store, now, loadDay, rnd, events, lastBlockedUrl, badge>>
  IN Failed(FreeCall)

\* index.ts 302-305: the tab's URL is decided.
ActivatedDecide ==
  \E c \in CallIds :
    LET Decided(call, d) ==
          /\ store' = d.store
          /\ Resume(c, IF d.blocked THEN [pc |-> "act:redirect", tabId |-> call.tabId, url |-> call.url]
                       ELSE [pc |-> "done", redirect |-> None])
          /\ UNCHANGED <<now, loadDay, rnd, events, lastBlockedUrl, badge>>
    IN At(c, "act:decide") /\ Decided(inflight.calls[c], shouldBlockUrl(store, inflight.calls[c].url))

\* index.ts 307-311: the tab is redirected and the handler returns.
ActivatedRedirect ==
  \E c \in CallIds :
    LET Redirect(call) ==
          /\ Resume(c, [pc |-> "done",
                        redirect |-> Some([tabId |-> call.tabId, url |-> blockedPageUrl[call.url]])])
          /\ UNCHANGED <<store, now, loadDay, rnd, events, lastBlockedUrl, badge>>
    IN At(c, "act:redirect") /\ Redirect(inflight.calls[c])

\* The stores the pending await of a suspended call can leave when it fails:
\* a read or an update of one key leaves the store as it was.
FailedStores(call) ==
  IF call.pc = "act:decide" THEN DecideFailures(store, call.url)
  ELSE IF call.pc \in {"nav:stats", "nav:current", "nav:write"} THEN {store}
  ELSE {}

\* index.ts 118-119, 302: the pending read or write of a suspended call throws.
\* The call ends with the redirect it has issued until then.
StoreFails ==
  \E c \in CallIds :
    /\ store' \in FailedStores(inflight.calls[c])
    /\ Resume(c, [pc |-> "failed", redirect |-> IssuedBy(inflight.calls[c])])
    /\ UNCHANGED <<now, loadDay, rnd, events, lastBlockedUrl, badge>>

FaultNext ==
  \/ NavDecide
  \/ NavReadStats
  \/ NavReadCurrent
  \/ NavWriteStats
  \/ NavRedirect
  \/ NavDecideFails
  \/ ActivatedReadSession
  \/ ActivatedReadFails
  \/ ActivatedDecide
  \/ ActivatedRedirect
  \/ StoreFails

FaultSpec == AwaitInit /\ [][FaultNext]_vars

(***************************************************************************)
(* UPDATE_SETTINGS at the grain of its awaits: the read before, the read   *)
(* and the write of updateStorage, and the read after.                     *)
(***************************************************************************)

\* index.ts 450: const before = await getStorageWithDefault('settings').
SettingsReadBefore ==
  \E updates \in SettingsUpdates :
    LET Read(c, r) ==
          /\ c # 0
          /\ store' = r.store
          /\ Resume(c, [pc |-> "settings:current", updates |-> updates, before |-> r.value])
          /\ UNCHANGED <<now, loadDay, rnd, events, lastBlockedUrl, badge>>
    IN Read(FreeCall, getStorageWithDefault(store, "settings"))

\* index.ts 451, storage.ts 236: updateStorage reads the current settings.
SettingsReadCurrent ==
  \E c \in CallIds :
    LET Read(call, r) ==
          /\ store' = r.store
          /\ Resume(c, [pc |-> "settings:write", updates |-> call.updates, before |-> call.before,
                        current |-> r.value])
          /\ UNCHANGED <<now, loadDay, rnd, events, lastBlockedUrl, badge>>
    IN At(c, "settings:current") /\ Read(inflight.calls[c], getStorageWithDefault(store, "settings"))

\* index.ts 451, storage.ts 237-238: the merged settings are written.
SettingsWrite ==
  \E c \in CallIds :
    LET Write(call) ==
          /\ store' = setStorage(store, "settings", Merge(call.current, call.updates))
          /\ Resume(c, [pc |-> "settings:after", updates |-> call.updates, before |-> call.before])
          /\ UNCHANGED <<now, loadDay, rnd, events, lastBlockedUrl, badge>>
    IN At(c, "settings:write") /\ Write(inflight.calls[c])

\* index.ts 452-462: the settings are read again, the changes are logged and
\* the handler answers success.
SettingsReadAfter ==
  \E c \in CallIds :
    LET Read(call, r) ==
          /\ store' = r.store
          /\ Resume(c, [pc |-> "done", success |-> TRUE, updates |-> call.updates])
          /\ UNCHANGED <<now, loadDay, rnd, events, lastBlockedUrl, badge>>
    IN At(c, "settings:after") /\ Read(inflight.calls[c], getStorageWithDefault(store, "settings"))

SettingsNext ==
  \/ SettingsReadBefore
  \/ SettingsReadCurrent
  \/ SettingsWrite
  \/ SettingsReadAfter

SettingsSpec == AwaitInit /\ [][SettingsNext]_vars

(***************************************************************************)
(* isUrlWhitelisted as a function of its list.  The stored whitelist is    *)
(* any list of up to MaxLen entries, and the function is called on it as   *)
(* it is stored, with two neighbours exchanged, with an entry that the     *)
(* loop skips put in, and with such an entry taken out.  The call and its  *)
(* result are kept in the first call slot.                                 *)
(***************************************************************************)
MaxLen == 2

\* The patterns of the entries: two that compile, one without protocol, the
\* empty one and one of spaces only.
ListPatterns == {GithubPattern, "chrome://*", "github.com", "", "  "}

ListEntries ==
  {[id |-> "entry", pattern |-> p, label |-> "Site", enabled |-> e] : p \in ListPatterns, e \in BOOLEAN}

\* compilePattern(p) !== null, tabulated.
compiles == [p \in Patterns |-> compileAndTest[p][GithubUrl] # "invalid"]

\* The entries the loop of isUrlWhitelisted passes over: the disabled ones and
\* those whose pattern does not compile.
SkippedEntries == {e \in ListEntries : ~e.enabled \/ ~compiles[e.pattern]}

TestUrls == {GithubUrl, SettingsUrl, UnrelatedUrl}

\* list with the entries i and i+1 exchanged.
Exchanged(list, i) ==
  [k \in 1..Len(list) |-> IF k = i THEN list[i + 1] ELSE IF k = i + 1 THEN list[i] ELSE list[k]]

\* list with entry put in before position i.
PutIn(list, i, entry) == SubSeq(list, 1, i - 1) \o <<entry>> \o SubSeq(list, i, Len(list))

\* list without its entry i.
TakenOut(list, i) == SubSeq(list, 1, i - 1) \o SubSeq(list, i + 1, Len(list))

ListInit ==
  /\ now = StartNow
  /\ loadDay = StartNow \div MsPerDay
  /\ rnd = 0
  /\ events = 0
  /\ badge = ""
  /\ lastBlockedUrl = ""
  /\ \E n \in 0..MaxLen : \E list \in [1..n -> ListEntries] :
       store = [FreshStore EXCEPT !.whitelist = Some(list)]
  /\ inflight = NoCalls

\* isUrlWhitelisted(url, patterns) is called, once in a run, and returns.
Called(url, patterns) ==
  /\ inflight = NoCalls
  /\ inflight' = [NoCalls EXCEPT !.calls[1] = [pc |-> "done", url |-> url, patterns |-> patterns,
                                               result |-> isUrlWhitelisted(url, patterns)]]
  /\ UNCHANGED <<store, now, loadDay, rnd, events, lastBlockedUrl, badge>>

TestStored ==
  \E u \in TestUrls : Called(u, store.whitelist[1])

TestExchanged ==
  \E u \in TestUrls, i \in 1..(Len(store.whitelist[1]) - 1) :
    Called(u, Exchanged(store.whitelist[1], i))

TestPutIn ==
  \E u \in TestUrls, i \in 1..(Len(store.whitelist[1]) + 1), entry \in SkippedEntries :
    Called(u, PutIn(store.whitelist[1], i, entry))

TestTakenOut ==
  \E u \in TestUrls, i \in 1..Len(store.whitelist[1]) :
    /\ store.whitelist[1][i] \in SkippedEntries
    /\ Called(u, TakenOut(store.whitelist[1], i))

ListNext ==
  \/ TestStored
  \/ TestExchanged
  \/ TestPutIn
  \/ TestTakenOut

ListSpec == ListInit /\ [][ListNext]_vars

(***************************************************************************)
(* The session handlers at the grain of their awaits: START_FOCUS,         *)
(* COMPLETE_TASK (the steps of completeTask above), CANCEL_FOCUS,          *)
(* GET_FOCUS_STATE and UPDATE_SETTINGS (the steps above) run interleaved,  *)
(* from a Focusing session.  updateBadge sets the badge text in the        *)
(* continuation of its read, so the two are one step.                      *)
(***************************************************************************)

\* The goal text of a START_FOCUS sent while the first session is running.
NextGoalText == "Read mail"

\* The id of the first goal: the one generateId returned at position 0 of its
\* stream.
FirstGoalId == ToString(StartNow) \o "-0"

\* The store START_FOCUS left when it started the first session.
FirstSessionStore ==
  [FocusingStore EXCEPT
     !.focusSession = Some([@[1] EXCEPT !.currentGoal = Some([@[1] EXCEPT !.id = FirstGoalId])])]

SessionInit ==
  /\ now = StartNow
  /\ loadDay = StartNow \div MsPerDay
  /\ rnd = 1
  /\ events = 0
  /\ badge = "ON"
  /\ lastBlockedUrl = ""
  /\ store = FirstSessionStore
  /\ inflight = NoCalls

\* index.ts 151-165: startFocus builds the session and writes it.
StartWriteSession ==
  LET goal == [id |-> generateId, text |-> NextGoalText, createdAt |-> now, completedAt |-> None]
      session == [active |-> TRUE, startedAt |-> Some(now), currentGoal |-> Some(goal), breakUntil |-> None]
      Write(c) ==
        /\ c # 0
        /\ rnd' = rnd + 1
        /\ store' = setStorage(store, "focusSession", session)
        /\ Resume(c, [pc |-> "start:badge", session |-> session])
        /\ UNCHANGED <<now, loadDay, events, lastBlockedUrl, badge>>
  IN Write(FreeCall)

\* The step as it would be if startFocus did not refresh the badge.
StartUpdateBadge_Skipped ==
  \E c \in CallIds :
    /\ At(c, "start:badge")
    /\ Resume(c, [pc |-> "start:tab", session |-> inflight.calls[c].session])
    /\ UNCHANGED <<store, now, loadDay, rnd, events, lastBlockedUrl, badge>>

\* index.ts 166: await updateBadge().
StartUpdateBadge ==
  \E c \in CallIds :
    LET Shown(call, b) ==
          /\ store' = b.store
          /\ badge' = b.badge
          /\ Resume(c, [pc |-> "start:tab", session |-> call.session])
          /\ UNCHANGED <<now, loadDay, rnd, events, lastBlockedUrl>>
    IN At(c, "start:badge") /\ Shown(inflight.calls[c], updateBadge(store))

\* index.ts 376-379: the current tab is checked and START_FOCUS answers.
StartCheckTab ==
  \E c \in CallIds, u \in {"", UnrelatedUrl} :
    LET Checked(call, r) ==
          /\ store' = r.store
          /\ Resume(c, [pc |-> "done", success |-> TRUE, session |-> call.session])
          /\ UNCHANGED <<now, loadDay, rnd, events, lastBlockedUrl, badge>>
    IN At(c, "start:tab") /\ Checked(inflight.calls[c], checkCurrentTabOnFocusStart(store, 1, u))

\* index.ts 388-391: CANCEL_FOCUS reads the settings; in strict mode it answers
\* success=false.
CancelReadSettings ==
  LET Read(c, settings) ==
        /\ c # 0
        /\ store' = settings.store
        /\ Resume(c, IF settings.value.strictMode THEN [pc |-> "done", success |-> FALSE, cleared |-> FALSE]
                     ELSE [pc |-> "cancel:settings"])
        /\ UNCHANGED <<now, loadDay, rnd, events, lastBlockedUrl, badge>>
  IN Read(FreeCall, getStorageWithDefault(store, "settings"))

\* index.ts 248-253, 392-393: cancelFocus reads the settings again; in strict
\* mode it returns, and CANCEL_FOCUS answers success=true.
CancelReadAgain ==
  \E c \in CallIds :
    LET Read(settings) ==
          /\ store' = settings.store
          /\ Resume(c, IF settings.value.strictMode THEN [pc |-> "done", success |-> TRUE, cleared |-> FALSE]
                       ELSE [pc |-> "cancel:write"])
          /\ UNCHANGED <<now, loadDay, rnd, events, lastBlockedUrl, badge>>
    IN At(c, "cancel:settings") /\ Read(getStorageWithDefault(store, "settings"))

\* index.ts 255-260: the idle session is written.
CancelWriteSession ==
  \E c \in CallIds :
    /\ At(c, "cancel:write")
    /\ store' = setStorage(store, "focusSession", idleSession)
    /\ Resume(c, [pc |-> "cancel:badge"])
    /\ UNCHANGED <<now, loadDay, rnd, events, lastBlockedUrl, badge>>

\* index.ts 262, 392-393: updateBadge, and CANCEL_FOCUS answers success=true.
CancelUpdateBadge ==
  \E c \in CallIds :
    LET Shown(b) ==
          /\ store' = b.store
          /\ badge' = b.badge
          /\ Resume(c, [pc |-> "done", success |-> TRUE, cleared |-> TRUE])
          /\ UNCHANGED <<now, loadDay, rnd, events, lastBlockedUrl>>
    IN At(c, "cancel:badge") /\ Shown(updateBadge(store))

\* index.ts 397: GET_FOCUS_STATE reads the session.
StateReadSession ==
  LET Read(c, s) ==
        /\ c # 0
        /\ store' = s.store
        /\ Resume(c, [pc |-> "state:blocking", session |-> s.value])
        /\ UNCHANGED <<now, loadDay, rnd, events, lastBlockedUrl, badge>>
  IN Read(FreeCall, getStorageWithDefault(store, "focusSession"))

\* index.ts 398-399: shouldBlock reads the session again, and the two are
\* answered together.
StateReadBlocking ==
  \E c \in CallIds :
    LET Read(call, b) ==
          /\ store' = b.store
          /\ Resume(c, [pc |-> "done", session |-> call.session, isBlocking |-> b.value])
          /\ UNCHANGED <<now, loadDay, rnd, events, lastBlockedUrl, badge>>
    IN At(c, "state:blocking") /\ Read(inflight.calls[c], shouldBlock(store))

SessionNext ==
  \/ StartWriteSession
  \/ StartUpdateBadge
  \/ StartCheckTab
  \/ TaskReadSession
  \/ TaskReadStats
  \/ TaskReadCurrent
  \/ TaskWriteStats
  \/ TaskReadGoals
  \/ TaskWriteGoals
  \/ TaskReadCurrentSession
  \/ TaskWriteSession
  \/ TaskUpdateBadge
  \/ CancelReadSettings
  \/ CancelReadAgain
  \/ CancelWriteSession
  \/ CancelUpdateBadge
  \/ StateReadSession
  \/ StateReadBlocking
  \/ SettingsReadBefore
  \/ SettingsReadCurrent
  \/ SettingsWrite
  \/ SettingsReadAfter

SessionSpec == SessionInit /\ [][SessionNext]_vars

(***************************************************************************)
(* The whitelist commands at the grain of their awaits: each reads the     *)
(* list and then writes the list it computed from what it read.            *)
(***************************************************************************)

\* index.ts 402-410: ADD_WHITELIST builds the entry and reads the list.
AddReadWhitelist ==
  \E pattern \in AddPatterns :
  LET newPattern == [id |-> generateId, pattern |-> pattern, label |-> "Site", enabled |-> TRUE]
      Read(c, whitelist) ==
        /\ c # 0
        /\ rnd' = rnd + 1
        /\ store' = whitelist.store
        /\ Resume(c, [pc |-> "add:write", pattern |-> newPattern, whitelist |-> whitelist.value])
        /\ UNCHANGED <<now, loadDay, events, lastBlockedUrl, badge>>
  IN Read(FreeCall, getStorageWithDefault(store, "whitelist"))

\* index.ts 411-413: the list with the new entry is written.
AddWriteWhitelist ==
  \E c \in CallIds :
    LET Write(call) ==
          /\ store' = setStorage(store, "whitelist", Append(call.whitelist, call.pattern))
          /\ Resume(c, [pc |-> "done", success |-> TRUE, pattern |-> call.pattern])
          /\ UNCHANGED <<now, loadDay, rnd, events, lastBlockedUrl, badge>>
    IN At(c, "add:write") /\ Write(inflight.calls[c])

\* index.ts 416-417: REMOVE_WHITELIST reads the list.
RemoveReadWhitelist ==
  \E id \in {"edge-internal"} :
    LET Read(c, whitelist) ==
          /\ c # 0
          /\ store' = whitelist.store
          /\ Resume(c, [pc |-> "remove:write", removes |-> id, whitelist |-> whitelist.value])
          /\ UNCHANGED <<now, loadDay, rnd, events, lastBlockedUrl, badge>>
    IN Read(FreeCall, getStorageWithDefault(store, "whitelist"))

\* index.ts 418-422: the filtered list is written.
RemoveWriteWhitelist ==
  \E c \in CallIds :
    LET Write(call) ==
          /\ store' = setStorage(store, "whitelist", RemoveId(call.whitelist, call.removes))
          /\ Resume(c, [pc |-> "done", success |-> TRUE, removes |-> call.removes])
          /\ UNCHANGED <<now, loadDay, rnd, events, lastBlockedUrl, badge>>
    IN At(c, "remove:write") /\ Write(inflight.calls[c])

\* index.ts 425-426: TOGGLE_WHITELIST reads the list.
ToggleReadWhitelist ==
  \E id \in {"chrome-internal"}, enabled \in BOOLEAN :
    LET Read(c, whitelist) ==
          /\ c # 0
          /\ store' = whitelist.store
          /\ Resume(c, [pc |-> "toggle:write", toggles |-> id, enabled |-> enabled,
                        whitelist |-> whitelist.value])
          /\ UNCHANGED <<now, loadDay, rnd, events, lastBlockedUrl, badge>>
    IN Read(FreeCall, getStorageWithDefault(store, "whitelist"))

\* index.ts 427-431: the mapped list is written.
ToggleWriteWhitelist ==
  \E c \in CallIds :
    LET Write(call) ==
          /\ store' = setStorage(store, "whitelist", SetEnabled(call.whitelist, call.toggles, call.enabled))
          /\ Resume(c, [pc |-> "done", success |-> TRUE, toggles |-> call.toggles, enabled |-> call.enabled])
          /\ UNCHANGED <<now, loadDay, rnd, events, lastBlockedUrl, badge>>
    IN At(c, "toggle:write") /\ Write(inflight.calls[c])

WhitelistNext ==
  \/ AddReadWhitelist
  \/ AddWriteWhitelist
  \/ RemoveReadWhitelist
  \/ RemoveWriteWhitelist
  \/ ToggleReadWhitelist
  \/ ToggleWriteWhitelist

WhitelistSpec == SessionInit /\ [][WhitelistNext]_vars

(***************************************************************************)
(* normalizeWhitelist as a function of the stored list: the list is drawn  *)
(* from entries with default and generated ids, legacy and current         *)
(* patterns, or is absent; the function is applied to it and then to the   *)
(* list it returned.  Both results are kept in the first call slot.        *)
(***************************************************************************)

\* An id generateId returned.
GeneratedId == ToString(StartNow) \o "-1"

StoredEntries ==
  {[id |-> id, pattern |-> p, label |-> l, enabled |-> e] :
     id \in {"chrome-internal", "edge-internal", GeneratedId},
     p \in {"^chrome://", "chrome://*", "^edge://"},
     l \in {"Chrome Internal Pages", "Site"},
     e \in BOOLEAN}

NormalizeInit ==
  /\ now = StartNow
  /\ loadDay = StartNow \div MsPerDay
  /\ rnd = 0
  /\ events = 0
  /\ badge = ""
  /\ lastBlockedUrl = ""
  /\ \/ store = FreshStore
     \/ \E n \in 0..MaxLen : \E list \in [1..n -> StoredEntries] :
          store = [FreshStore EXCEPT !.whitelist = Some(list)]
  /\ inflight = NoCalls

\* storage.ts 208: normalizeWhitelist(result.whitelist).
NormalizeStored ==
  /\ inflight = NoCalls
  /\ inflight' = [NoCalls EXCEPT !.calls[1] = [pc |-> "normalize:again", stored |-> store.whitelist,
                                               normalized |-> normalizeWhitelist(store.whitelist)]]
  /\ UNCHANGED <<store, now, loadDay, rnd, events, lastBlockedUrl, badge>>

\* normalizeWhitelist applied to the list it returned, as the next read of the
\* key does once that list was written.
NormalizeAgain ==
  LET Again(call) ==
        /\ Resume(1, [pc |-> "done", stored |-> call.stored, normalized |-> call.normalized,
                      again |-> normalizeWhitelist(Some(call.normalized.list))])
        /\ UNCHANGED <<store, now, loadDay, rnd, events, lastBlockedUrl, badge>>
  IN At(1, "normalize:again") /\ Again(inflight.calls[1])

NormalizeNext ==
  \/ NormalizeStored
  \/ NormalizeAgain

NormalizeSpec == NormalizeInit /\ [][NormalizeNext]_vars

(***************************************************************************)
(* Properties.  Each handler is applied to the reachable store with every  *)
(* input of the model; a witness names a reachable state in which the      *)
(* case of the property occurs.                                            *)
(***************************************************************************)
\* The stored session is Focusing: active, with a goal.
Focusing(st) ==
  /\ st.focusSession # None
  /\ st.focusSession[1].active
  /\ st.focusSession[1].currentGoal # None

\* A main-frame commit of url in tab t.
MainFrame(t, url) == [tabId |-> t, url |-> url, frameId |-> 0]

\* The whitelist a read returns holds an enabled pattern that matches url.
EnabledMatch(st, url) ==
  LET whitelist == getStorageWithDefault(st, "whitelist").value
  IN \E i \in 1..Len(whitelist) :
       whitelist[i].enabled /\ compileAndTest[whitelist[i].pattern][url] = "match"

\* url is a resource of the extension's own blocked page, tabulated.
ownBlockedPage == [u \in Urls |-> StartsWith(u, runtimeGetURL("blocked/blocked.html"))]

\* C1: when the stored session is not Focusing, shouldBlockUrl and CHECK_URL
\* answer "not blocked" for every URL, whatever the whitelist holds, and neither
\* handleNavigation nor handleTabActivated redirects a tab.
C1_NotFocusingNeverBlocks ==
  ~Focusing(store) =>
    \A u \in Urls :
      /\ ~shouldBlockUrl(store, u).blocked
      /\ CHECK_URL(store, [url |-> u]).out.allowed
      /\ \A t \in TabIds :
           /\ handleNavigation(store, MainFrame(t, u), lastBlockedUrl).redirect = None
           /\ handleTabActivated(store, t, u).redirect = None

\* A goal has been completed, the user has added a pattern or switched a default
\* off, and a URL no pattern matches is decided "focus-inactive".
C1_Witness ==
  /\ ~Focusing(store)
  /\ store.completedGoals # None
  /\ store.stats # None
  /\ ~EnabledMatch(store, UnrelatedUrl)
  /\ shouldBlockUrl(store, UnrelatedUrl).reason = Some("focus-inactive")

\* C2: during a Focusing session, a URL that an enabled whitelist pattern
\* matches is not blocked, whatever else the whitelist holds (enabled, disabled
\* or invalid patterns) and whatever strictMode is.
C2_WhitelistedNeverBlocked ==
  Focusing(store) =>
    \A u \in Urls : EnabledMatch(store, u) => ~shouldBlockUrl(store, u).blocked

\* Focusing, with a pattern the user added after the defaults matching a URL
\* that no default matches.
C2_Witness ==
  /\ Focusing(store)
  /\ store.whitelist # None
  /\ Len(store.whitelist[1]) > Len(defaultWhitelist)
  /\ EnabledMatch(store, GithubUrl)
  /\ shouldBlockUrl(store, GithubUrl).reason = Some("whitelisted")

\* C3: during a Focusing session, every URL that is not empty, not about:blank,
\* not a resource of the extension's own blocked page and matched by no enabled
\* whitelist pattern is blocked by shouldBlockUrl, and a main-frame commit of it
\* is redirected to the blocked page; this includes a third-party URL that only
\* contains the text "blocked/blocked.html".
C3_NoFalseNegatives ==
  Focusing(store) =>
    \A u \in Urls \ {"", "about:blank"}, t \in TabIds :
      (~ownBlockedPage[u] /\ ~EnabledMatch(store, u)) =>
        /\ shouldBlockUrl(store, u).blocked
        /\ handleNavigation(store, MainFrame(t, u), lastBlockedUrl).redirect
             = Some([tabId |-> t, url |-> getBlockedPageUrl(u)])

\* No URL of the model is blocked by shouldBlockUrl on store st.
NothingBlocked(st) == \A u \in Urls : ~shouldBlockUrl(st, u).blocked

\* C4: after a successful completeTask the session is no longer Focusing and
\* shouldBlockUrl blocks no URL, also not one that was blocked just before; and
\* from a session that is not Focusing every step other than START_FOCUS,
\* the passing of time included, leaves it so: nothing is blocked until the
\* next START_FOCUS.
C4_NothingBlockedUntilNextStart ==
  [][/\ (CompleteTaskMsg /\ Focusing(store)) => (~Focusing(store') /\ NothingBlocked(store'))
     /\ (~Focusing(store) /\ ~StartFocusMsg) => (~Focusing(store') /\ NothingBlocked(store'))]_vars

\* A commit of UnrelatedUrl was blocked and counted, the goal was then completed
\* and time has passed since: the same URL is no longer blocked.
C4_Witness ==
  /\ store.completedGoals # None
  /\ store.focusSession = Some(idleSession)
  /\ lastBlockedUrl = UnrelatedUrl
  /\ store.stats # None /\ store.stats[1].blockedAttempts > 0
  /\ now > store.completedGoals[1][Len(store.completedGoals[1])].completedAt[1]
  /\ ~shouldBlockUrl(store, UnrelatedUrl).blocked

\* The strictMode setting a read returns.
StrictMode(st) == getStorageWithDefault(st, "settings").value.strictMode

\* C5: with strictMode on and a Focusing session, CANCEL_FOCUS answers
\* success=false and neither it nor cancelFocus changes the stored
\* focusSession, stats or completedGoals.
C5_StrictCancelLeavesState ==
  (Focusing(store) /\ StrictMode(store)) =>
    LET r == CANCEL_FOCUS(store)
        c == cancelFocus(store, badge)
    IN /\ ~r.out.success
       /\ r.store.focusSession = store.focusSession
       /\ r.store.stats = store.stats
       /\ r.store.completedGoals = store.completedGoals
       /\ c.store.focusSession = store.focusSession
       /\ c.store.stats = store.stats
       /\ c.store.completedGoals = store.completedGoals

\* Focusing under strictMode, with a blocked commit already counted.
C5_Witness ==
  /\ Focusing(store)
  /\ StrictMode(store)
  /\ store.stats # None /\ store.stats[1].blockedAttempts > 0
  /\ ~CANCEL_FOCUS(store).out.success

\* C6: with strictMode off, cancelFocus leaves the stored focusSession
\* {active=false, startedAt=null, currentGoal=null, breakUntil=null},
\* CANCEL_FOCUS answers success=true, and stats and completedGoals are as
\* before: the cancelled goal is not counted as completed.
C6_CancelResetsToIdle ==
  ~StrictMode(store) =>
    LET r == CANCEL_FOCUS(store)
        c == cancelFocus(store, badge)
    IN /\ r.out.success
       /\ r.store.focusSession = Some(idleSession)
       /\ r.store.stats = store.stats
       /\ r.store.completedGoals = store.completedGoals
       /\ c.store.focusSession = Some(idleSession)
       /\ c.store.stats = store.stats
       /\ c.store.completedGoals = store.completedGoals

\* Focusing on a second goal with strictMode off, after a first goal was
\* completed and counted.
C6_Witness ==
  /\ Focusing(store)
  /\ ~StrictMode(store)
  /\ store.completedGoals # None /\ Len(store.completedGoals[1]) > 0
  /\ store.stats # None /\ store.stats[1].completedTasks > 0
  /\ CANCEL_FOCUS(store).store.focusSession = Some(idleSession)

\* Goal texts that are not empty after trimming; the handler stores the text as
\* it arrives.
ValidTexts == GoalTexts \cup {" Read paper "}

\* The ids of the goals and whitelist entries the store holds.
StoredIdsOf(st) ==
  LET whitelist == getStorageWithDefault(st, "whitelist").value
  IN {st.completedGoals[1][i].id : i \in 1..(IF st.completedGoals = None THEN 0 ELSE Len(st.completedGoals[1]))}
       \cup (IF Focusing(st) THEN {st.focusSession[1].currentGoal[1].id} ELSE {})
       \cup {whitelist[i].id : i \in 1..Len(whitelist)}

\* C7: after START_FOCUS with a goal text T the stored session has active=true,
\* startedAt=now, breakUntil=null and as currentGoal a new goal with text T and
\* an id no stored goal or whitelist entry carries, and GET_FOCUS_STATE then
\* returns session.active=true, session.currentGoal.text=T and isBlocking=true.
C7_StartFocusStoresSession ==
  LET stored == StoredIdsOf(store)
  IN \A T \in ValidTexts, t \in TabIds, u \in TabUrls :
       LET r == START_FOCUS(store, [goalText |-> T], [id |-> t, url |-> u])
           s == r.store.focusSession
           g == GET_FOCUS_STATE(r.store).out
       IN /\ r.out.success
          /\ s # None
          /\ s[1].active
          /\ s[1].startedAt = Some(now)
          /\ s[1].breakUntil = None
          /\ s[1].currentGoal # None
          /\ s[1].currentGoal[1].text = T
          /\ s[1].currentGoal[1].completedAt = None
          /\ s[1].currentGoal[1].id \notin stored
          /\ g.session.active
          /\ g.session.currentGoal # None
          /\ g.session.currentGoal[1].text = T
          /\ g.isBlocking

\* START_FOCUS has just stored a second goal, later than the first was started:
\* the first is in the history and the session is blocking.
C7_Witness ==
  /\ Focusing(store)
  /\ store.focusSession[1].startedAt = Some(now)
  /\ now > StartNow
  /\ store.focusSession[1].currentGoal[1].text \in ValidTexts
  /\ store.completedGoals # None /\ Len(store.completedGoals[1]) > 0
  /\ GET_FOCUS_STATE(store).out.isBlocking

\* C8: START_FOCUS with a goal text that is empty after trimming is refused by
\* the message handler itself: it does not answer success, no session is
\* started and the stored focusSession is unchanged.
C8_BlankGoalRejected ==
  \A T \in BlankTexts, t \in TabIds, u \in TabUrls :
    LET r == START_FOCUS(store, [goalText |-> T], [id |-> t, url |-> u])
    IN Trim(T) = "" => (~r.out.success /\ r.store.focusSession = store.focusSession)

\* The stored session record is active without a goal.
Anomalous(st) ==
  /\ st.focusSession # None
  /\ st.focusSession[1].active
  /\ st.focusSession[1].currentGoal = None

\* C9 as stated: completeTask called when the session is not Focusing
\* (active=false or currentGoal=null) returns failure and leaves stats,
\* completedGoals and the focusSession record unchanged.
C9_NotFocusingIsNoOp ==
  ~Focusing(store) =>
    LET r == completeTask(store, badge)
    IN /\ ~r.success
       /\ ~COMPLETE_TASK(store).out.success
       /\ r.store.stats = store.stats
       /\ r.store.completedGoals = store.completedGoals
       /\ r.store.focusSession = store.focusSession

\* C9 as amended: completeTask called when the session is not Focusing returns
\* failure and leaves stats and completedGoals unchanged; the focusSession
\* record is unchanged too unless it is active without a goal, and then it is
\* stored again with active=false, startedAt=null and breakUntil=null.
C9_NotFocusingFails ==
  ~Focusing(store) =>
    LET r == completeTask(store, badge)
    IN /\ ~r.success
       /\ ~COMPLETE_TASK(store).out.success
       /\ r.store.stats = store.stats
       /\ r.store.completedGoals = store.completedGoals
       /\ r.store.focusSession =
            IF Anomalous(store)
            THEN Some([store.focusSession[1] EXCEPT !.active = FALSE, !.startedAt = None, !.breakUntil = None])
            ELSE store.focusSession

\* The session is idle after a completed goal, with stats stored: completeTask
\* fails and changes nothing.
C9_Witness ==
  /\ store.focusSession = Some(idleSession)
  /\ store.completedGoals # None /\ Len(store.completedGoals[1]) > 0
  /\ store.stats # None /\ store.stats[1].completedTasks > 0
  /\ ~completeTask(store, badge).success
  /\ completeTask(store, badge).store = store

\* The stored history, empty when the key is absent.
History(st) == IF st.completedGoals = None THEN <<>> ELSE st.completedGoals[1]

\* The stored counters, zero when the key is absent.
StoredCounters(st) == IF st.stats = None THEN storageDefaults.stats ELSE st.stats[1]

\* What a successful completeTask leaves, given the counters it starts from:
\* one task and floor((now - startedAt) / 60000) minutes more, blockedAttempts
\* as before, and the history extended by the current goal with completedAt=now.
CompletedFrom(st, before) ==
  LET r == completeTask(st, badge)
      session == st.focusSession[1]
  IN /\ r.success
     /\ r.store.stats # None
     /\ r.store.stats[1].completedTasks = before.completedTasks + 1
     /\ r.store.stats[1].focusMinutes
          = before.focusMinutes + (now - session.startedAt[1]) \div MsPerMinute
     /\ r.store.stats[1].blockedAttempts = before.blockedAttempts
     /\ r.store.completedGoals
          = Some(Append(History(st), [session.currentGoal[1] EXCEPT !.completedAt = Some(now)]))

\* C10 as stated: a successful completeTask from a Focusing session increases
\* the stored completedTasks by exactly 1 and focusMinutes by exactly
\* floor((now - startedAt) / 60000), leaves blockedAttempts unchanged, and
\* appends exactly one entry to completedGoals, the current goal with
\* completedAt=now, after the stored history, which stays unchanged.
C10_CompleteCountsOnStored ==
  Focusing(store) => CompletedFrom(store, StoredCounters(store))

\* C10 as amended: the same, with the counters taken as a read of the stats
\* returns them at that moment: the stored ones when their date is today, zero
\* when the stored date is another day.
C10_CompleteCountsOnRead ==
  Focusing(store) => CompletedFrom(store, getStorageWithDefault(store, "stats").value)

\* Focusing on a second goal for three quarters of a minute, with a first goal
\* completed and counted the same day.
C10_Witness ==
  /\ Focusing(store)
  /\ Len(History(store)) > 0
  /\ store.stats # None
  /\ store.stats[1].date = getTodayString
  /\ store.stats[1].completedTasks > 0
  /\ now - store.focusSession[1].startedAt[1] = TickMs
  /\ completeTask(store, badge).store.stats[1].completedTasks = store.stats[1].completedTasks + 1


\* The break length in minutes a read of the settings returns; the options
\* page's default when the stored settings hold none.
BreakDuration(st) ==
  LET settings == getStorageWithDefault(st, "settings").value
  IN IF "breakDuration" \in DOMAIN settings THEN settings.breakDuration ELSE DefaultBreakDuration

\* C11: a successful completeTask puts the session into Break: the stored
\* focusSession afterwards has active=false, startedAt=null, currentGoal=null
\* and breakUntil = now + breakDuration * 60000, breakDuration being the stored
\* setting.
C11_CompleteStartsBreak ==
  Focusing(store) =>
    LET r == completeTask(store, badge)
    IN /\ r.success
       /\ r.store.focusSession
            = Some([active |-> FALSE, startedAt |-> None, currentGoal |-> None,
                    breakUntil |-> Some(now + BreakDuration(store) * MsPerMinute)])

Healed(st) == [st.focusSession[1] EXCEPT !.active = FALSE, !.startedAt = None, !.breakUntil = None]

\* The decision on url reads the session: url is not empty, not the blocked
\* page, and not a new-tab page that the whitelist lets through before the
\* session is looked at.
ReadsSession(st, url) ==
  /\ url \notin {"", "about:blank"}
  /\ ~includesBlockedPage[url]
  /\ url \in NewTabPages => ~EnabledMatch(st, url)

\* C13: when the stored session is active without a goal, each reader of the
\* session (shouldBlock, completeTask, updateBadge, GET_FOCUS_STATE) works on and
\* stores the record with active=false, startedAt=null and breakUntil=null; no
\* URL is blocked, a decision that reads the session gives the reason
\* focus-inactive, and neither a commit nor an activation redirects a tab.
C13_SelfHealing ==
  Anomalous(store) =>
    LET healed == Healed(store)
        b == shouldBlock(store)
        c == completeTask(store, badge)
        g == GET_FOCUS_STATE(store)
    IN /\ ~b.value /\ b.store.focusSession = Some(healed)
       /\ ~c.success /\ c.store.focusSession = Some(healed)
       /\ updateBadge(store).badge = "" /\ updateBadge(store).store.focusSession = Some(healed)
       /\ g.out.session = healed /\ ~g.out.isBlocking /\ g.store.focusSession = Some(healed)
       /\ \A u \in Urls :
            /\ ~shouldBlockUrl(store, u).blocked
            /\ ReadsSession(store, u) =>
                 /\ shouldBlockUrl(store, u).reason = Some("focus-inactive")
                 /\ shouldBlockUrl(store, u).store.focusSession = Some(healed)
            /\ \A t \in TabIds :
                 /\ handleNavigation(store, MainFrame(t, u), lastBlockedUrl).redirect = None
                 /\ handleTabActivated(store, t, u).redirect = None

\* The anomalous record is still stored after time has passed and the whitelist
\* was written, and a read of it stores the repaired record.
C13_Witness ==
  /\ Anomalous(store)
  /\ now > StartNow
  /\ store.whitelist # None
  /\ shouldBlockUrl(store, UnrelatedUrl).reason = Some("focus-inactive")
  /\ shouldBlockUrl(store, UnrelatedUrl).store.focusSession = Some(Healed(store))

\* C14: blockedAttempts rises by exactly 1 per blocked main-frame commit: the
\* write that counts a blocked commit leaves the stored counter one higher than
\* it was, and no other step of the interceptor moves it: not the activation
\* or update event that observes the same navigation, and not the decision on a
\* commit, the commit of the blocked page after the redirect included.
C14_OneCountPerBlockedCommit ==
  [][/\ NavWriteStats =>
          CountersOf(store'.stats).blockedAttempts = CountersOf(store.stats).blockedAttempts + 1
     /\ (TabActivated \/ TabUpdated \/ NavDecide \/ NavRedirect) =>
          CountersOf(store'.stats).blockedAttempts = CountersOf(store.stats).blockedAttempts]_vars

\* No handler call is suspended.
Quiescent == \A c \in CallIds : inflight.calls[c].pc \in {"idle", "done"}

\* C15: no update of the stats record is lost: when k commits were decided
\* blocked and m completeTask calls returned true, however their steps were
\* interleaved, the stored blockedAttempts is k and the stored completedTasks m
\* higher than at the start once all calls have returned, and no step lowers a
\* counter.
C15_NoLostUpdates ==
  /\ [](Quiescent =>
          /\ CountersOf(store.stats).blockedAttempts = inflight.base.blockedAttempts + inflight.blocked
          /\ CountersOf(store.stats).completedTasks = inflight.base.completedTasks + inflight.completed)
  /\ [][/\ CountersOf(store'.stats).blockedAttempts >= CountersOf(store.stats).blockedAttempts
        /\ CountersOf(store'.stats).completedTasks >= CountersOf(store.stats).completedTasks]_vars

\* The ids of the protected default entries.
ProtectedIds == {defaultWhitelist[i].id : i \in 1..Len(defaultWhitelist)}

\* The ids of the entries of a whitelist.
IdsOf(list) == {list[i].id : i \in 1..Len(list)}

\* The stored whitelist of st and the list a read of st returns both hold the
\* four protected ids.
HoldsProtected(st) ==
  /\ st.whitelist # None
  /\ ProtectedIds \subseteq IdsOf(st.whitelist[1])
  /\ ProtectedIds \subseteq IdsOf(getStorageWithDefault(st, "whitelist").value)

\* C16: the four protected default entries always exist and cannot be deleted:
\* after ADD_WHITELIST, after REMOVE_WHITELIST with any id, a protected one
\* included, and after TOGGLE_WHITELIST, the stored whitelist and the list the
\* blocking path reads contain all four ids.
C16_ProtectedDefaultsStay ==
  /\ \A pattern \in AddPatterns :
       HoldsProtected(ADD_WHITELIST(store, [pattern |-> pattern, label |-> "Site"]).store)
  /\ \A id \in ProtectedIds \cup TargetIds :
       /\ HoldsProtected(REMOVE_WHITELIST(store, [id |-> id]).store)
       /\ \A enabled \in BOOLEAN :
            HoldsProtected(TOGGLE_WHITELIST(store, [id |-> id, enabled |-> enabled]).store)

\* A read of the session or of the whitelist would write to st: the session is
\* active without a goal or no normalized whitelist is stored.
LookupWrites(st) ==
  \/ getStorageWithDefault(st, "focusSession").store # st
  \/ getStorageWithDefault(st, "whitelist").store # st

\* C17: in every session state and for every whitelist, shouldBlockUrl (and
\* CHECK_URL with it) answers "not blocked" with reason empty-url for the empty
\* URL and about:blank and with reason blocked-page for the extension's blocked
\* page, and it does so before any lookup: the store is left as it is, also
\* where a read of the session or of the whitelist would write.
C17_EarlyExemptions ==
  \A u \in Urls :
    LET d == shouldBlockUrl(store, u)
        c == CHECK_URL(store, [url |-> u])
    IN /\ u \in {"", "about:blank"} =>
            /\ ~d.blocked /\ d.reason = Some("empty-url") /\ d.store = store
            /\ c.out = [allowed |-> TRUE, reason |-> Some("empty-url")] /\ c.store = store
       /\ ownBlockedPage[u] =>
            /\ ~d.blocked /\ d.reason = Some("blocked-page") /\ d.store = store
            /\ c.out = [allowed |-> TRUE, reason |-> Some("blocked-page")] /\ c.store = store

\* Focusing with strictMode on and nothing read from the whitelist yet: a
\* lookup would write, and the blocked page is let through without one.
C17_Witness ==
  /\ Focusing(store)
  /\ StrictMode(store)
  /\ LookupWrites(store)
  /\ shouldBlockUrl(store, getBlockedPageUrl(UnrelatedUrl)).reason = Some("blocked-page")
  /\ shouldBlockUrl(store, "about:blank").store = store

\* st after the user has switched the default entry for extension pages off,
\* the one whitelist entry that matches the blocked page.
ExtensionsOff(st) == TOGGLE_WHITELIST(st, [id |-> "chrome-extension", enabled |-> FALSE]).store

\* On store st, with lbu the last blocked URL, no event about tab t showing (or
\* committing) the blocked page page redirects, counts or changes lbu.
NoRedirectOn(st, lbu, t, page) ==
  LET n == handleNavigation(st, MainFrame(t, page), lbu)
  IN /\ n.redirect = None
     /\ n.store = st
     /\ n.lastBlockedUrl = lbu
     /\ handleTabActivated(st, t, page).redirect = None
     /\ handleTabActivated(st, t, page).store.stats = st.stats
     /\ \A active \in BOOLEAN :
          LET upd == handleTabUpdate(st, [status |-> "complete", url |-> Some(page)], active)
          IN ~upd.wouldBlock /\ upd.store.stats = st.stats

\* C18: the interceptor is idempotent.  A commit, an activation and an update
\* event for a tab that shows the extension's blocked page issue no redirect
\* and count nothing, whatever the session and the whitelist are (also with the
\* default entry for extension pages switched off); and when a commit of a URL
\* is blocked it issues one redirect, to the blocked page, after which the
\* commit of that page and every further event for it redirect and count
\* nothing: the chain stops there.
C18_InterceptorIdempotent ==
  \A t \in TabIds :
    /\ \A page \in {u \in Urls : ownBlockedPage[u]} :
         /\ NoRedirectOn(store, lastBlockedUrl, t, page)
         /\ NoRedirectOn(ExtensionsOff(store), lastBlockedUrl, t, page)
    /\ \A u \in {v \in Urls : blockedPageUrl[v] \in Urls} :
         LET n == handleNavigation(store, MainFrame(t, u), lastBlockedUrl)
         IN n.blocked =>
              /\ n.redirect = Some([tabId |-> t, url |-> blockedPageUrl[u]])
              /\ n.lastBlockedUrl = u
              /\ NoRedirectOn(n.store, u, t, blockedPageUrl[u])

\* A commit was blocked, counted and redirected during a Focusing session in
\* which the user has switched a default entry off; the commit of the blocked
\* page that follows is not redirected.
C18_Witness ==
  /\ Focusing(store)
  /\ lastBlockedUrl = UnrelatedUrl
  /\ store.stats # None /\ store.stats[1].blockedAttempts = 1
  /\ \E i \in 1..Len(store.whitelist[1]) : ~store.whitelist[1][i].enabled
  /\ handleNavigation(store, MainFrame(1, blockedPageUrl[UnrelatedUrl]), lastBlockedUrl).redirect = None

\* What the blocked page finds when it is opened by the redirect for url: that
\* it is the extension's blocked page, and the originalUrl it reads; tabulated.
redirectTarget ==
  [u \in Urls |-> [page |-> StartsWith(blockedPageUrl[u], runtimeGetURL("blocked/blocked.html") \o "?"),
                   originalUrl |-> originalUrl(blockedPageUrl[u])]]

\* A commit of url in a sub-frame of tab t.
SubFrame(t, url) == [tabId |-> t, url |-> url, frameId |-> 1]

\* C19: every main-frame commit is decided as shouldBlockUrl decides its URL,
\* and a blocked one redirects the same tab to the extension's blocked page,
\* whose url parameter reads back as the original URL; a commit that is not
\* blocked redirects nothing; a commit of a sub-frame is not decided, redirects
\* nothing and leaves the store, the stats with it, and lastBlockedUrl as they
\* were.
C19_CommitsDecidedAndRedirected ==
  \A t \in TabIds, u \in Urls :
    LET n == handleNavigation(store, MainFrame(t, u), lastBlockedUrl)
        f == handleNavigation(store, SubFrame(t, u), lastBlockedUrl)
    IN /\ n.evaluated
       /\ n.blocked = shouldBlockUrl(store, u).blocked
       /\ n.blocked =>
            /\ n.redirect = Some([tabId |-> t, url |-> blockedPageUrl[u]])
            /\ redirectTarget[u].page
            /\ redirectTarget[u].originalUrl = u
       /\ ~n.blocked => n.redirect = None /\ n.store.stats = shouldBlockUrl(store, u).store.stats
       /\ ~f.evaluated /\ ~f.blocked /\ f.redirect = None
       /\ f.store = store /\ f.lastBlockedUrl = lastBlockedUrl

\* Focusing with a blocked commit already counted: a main-frame commit of a URL
\* with a query is blocked, and the same commit in a sub-frame is not looked
\* at.
C19_Witness ==
  /\ Focusing(store)
  /\ store.stats # None /\ store.stats[1].blockedAttempts > 0
  /\ handleNavigation(store, MainFrame(2, QueryUrl), lastBlockedUrl).redirect
       = Some([tabId |-> 2, url |-> blockedPageUrl[QueryUrl]])
  /\ handleNavigation(store, SubFrame(2, QueryUrl), lastBlockedUrl).redirect = None

\* The general rule: url is blocked iff the session is Focusing and no enabled
\* whitelist pattern matches it.
GeneralRule(st, url) == Focusing(st) /\ ~EnabledMatch(st, url)

\* C20: a new-tab page (about:newtab, chrome://newtab/, edge://newtab/) gets
\* the outcome of the general rule wherever the interceptor decides on it: the
\* decision of shouldBlockUrl and CHECK_URL, the redirect of a commit and the
\* redirect of a tab activation are all "blocked" iff the session is Focusing
\* and no enabled whitelist pattern matches the page; nothing exempts it
\* unconditionally.
C20_NewTabLikeAnyUrl ==
  \A u \in NewTabPages, t \in TabIds :
    /\ shouldBlockUrl(store, u).blocked = GeneralRule(store, u)
    /\ CHECK_URL(store, [url |-> u]).out.allowed = ~GeneralRule(store, u)
    /\ (handleNavigation(store, MainFrame(t, u), lastBlockedUrl).redirect # None) = GeneralRule(store, u)
    /\ (handleTabActivated(store, t, u).redirect # None) = GeneralRule(store, u)

\* The reason the decision precedence gives for url on store st, first match
\* first.
PrecedenceReason(st, url) ==
  IF url \in {"", "about:blank"} THEN "empty-url"
  ELSE IF ownBlockedPage[url] THEN "blocked-page"
  ELSE IF ~Focusing(st) THEN "focus-inactive"
  ELSE IF EnabledMatch(st, url) THEN "whitelisted"
  ELSE "no-match"

\* C21: the reason shouldBlockUrl and CHECK_URL return follows the decision
\* precedence, first match wins: empty-url or blocked-page for the exempt URLs;
\* otherwise focus-inactive whenever the session is not Focusing, also for a
\* URL a whitelist pattern matches and for a new-tab page; otherwise
\* whitelisted when an enabled pattern matches; otherwise blocked with reason
\* no-match.
C21_ReasonFollowsPrecedence ==
  \A u \in Urls :
    /\ shouldBlockUrl(store, u).reason = Some(PrecedenceReason(store, u))
    /\ shouldBlockUrl(store, u).blocked = (PrecedenceReason(store, u) = "no-match")
    /\ CHECK_URL(store, [url |-> u]).out
         = [allowed |-> PrecedenceReason(store, u) # "no-match", reason |-> Some(PrecedenceReason(store, u))]

\* The stats of a day on which nothing has been counted yet.
FreshStats == [date |-> getTodayString, completedTasks |-> 0, focusMinutes |-> 0, blockedAttempts |-> 0]

\* The date has changed since the stats were last dated: the stored record
\* carries another day, or none is stored and the defaults carry another day.
DateChanged(st) ==
  IF st.stats = None THEN storageDefaults.stats.date # getTodayString
  ELSE st.stats[1].date # getTodayString

\* C22: daily rollover.  A read of the stats whose stored date is not today
\* returns and stores {date=today, 0, 0, 0}; every read of the stats returns a
\* record dated today; and after a change of date the first blocked commit or
\* completeTask of the new day leaves exactly its own contribution stored
\* under today's date.
C22_DailyRollover ==
  LET r == getStorageWithDefault(store, "stats")
  IN /\ (store.stats # None /\ store.stats[1].date # getTodayString) =>
          r.value = FreshStats /\ r.store.stats = Some(FreshStats)
     /\ r.value.date = getTodayString
     /\ GET_STATS(store).out.stats.date = getTodayString
     /\ (DateChanged(store) /\ Focusing(store)) =>
          /\ \A t \in TabIds :
               handleNavigation(store, MainFrame(t, UnrelatedUrl), lastBlockedUrl).store.stats
                 = Some([FreshStats EXCEPT !.blockedAttempts = 1])
          /\ completeTask(store, badge).store.stats
               = Some([FreshStats EXCEPT !.completedTasks = 1,
                                         !.focusMinutes = (now - store.focusSession[1].startedAt[1]) \div MsPerMinute])

\* C23: the blocking path never writes the whitelist key.  A navigation commit,
\* a tab activation, a tab update, CHECK_URL and START_FOCUS leave the stored
\* whitelist exactly as it was, whatever it holds.
C23_BlockingPathKeepsWhitelist ==
  \A t \in TabIds, u \in Urls :
    /\ handleNavigation(store, MainFrame(t, u), lastBlockedUrl).store.whitelist = store.whitelist
    /\ handleTabActivated(store, t, u).store.whitelist = store.whitelist
    /\ \A active \in BOOLEAN :
         handleTabUpdate(store, [status |-> "complete", url |-> Some(u)], active).store.whitelist
           = store.whitelist
    /\ CHECK_URL(store, [url |-> u]).store.whitelist = store.whitelist
    /\ \A g \in GoalTexts :
         START_FOCUS(store, [goalText |-> g], [id |-> t, url |-> u]).store.whitelist = store.whitelist

\* C24: the navigation path fails open.  A commit or a tab activation during
\* which a read or a write of the store has failed has issued no redirect, and
\* after a failure the next commit and the next activation are still taken up
\* by their handlers (while a call slot is free).
C24_FailsOpen ==
  /\ \A c \in CallIds : At(c, "failed") => inflight.calls[c].redirect = None
  /\ (FreeCall # 0 /\ \E c \in CallIds : At(c, "failed")) =>
       ENABLED NavDecide /\ ENABLED ActivatedReadSession

\* A commit whose stats update failed has ended without redirect, and a later
\* commit has been handled to its redirect.
C24_Witness ==
  \E c, d \in CallIds :
    /\ At(c, "failed")
    /\ At(d, "done") /\ inflight.calls[d].redirect # None
    /\ lastBlockedUrl # ""
    /\ store.stats # None

\* The goal of the stored session.
GoalOf(st) == st.focusSession[1].currentGoal[1]

\* C25: the goal of a running session is immutable.  A step from a Focusing
\* session to a Focusing session keeps the goal's id and text, and START_FOCUS
\* sent while a session is Focusing does not succeed and leaves the stored
\* session as it is.
C25_RunningGoalImmutable ==
  [][Focusing(store) =>
       /\ Focusing(store') =>
            GoalOf(store').id = GoalOf(store).id /\ GoalOf(store').text = GoalOf(store).text
       /\ \A g \in GoalTexts, t \in TabIds, u \in TabUrls :
            LET r == START_FOCUS(store, [goalText |-> g], [id |-> t, url |-> u])
            IN ~r.out.success /\ r.store.focusSession = store.focusSession]_vars

\* C26: CHECK_URL is a read-only query.  It answers allowed = not blocked with
\* the reason of shouldBlockUrl's decision, and when the stored session is valid
\* it leaves focusSession, stats, completedGoals and settings as they are stored;
\* it returns nothing that redirects a tab and leaves lastBlockedUrl alone.
C26_CheckUrlReadOnly ==
  \A u \in Urls :
    LET r == CHECK_URL(store, [url |-> u])
        d == shouldBlockUrl(store, u)
    IN /\ r.out = [allowed |-> ~d.blocked, reason |-> d.reason]
       /\ DOMAIN r = {"out", "store"}
       /\ ~Anomalous(store) =>
            /\ r.store.focusSession = store.focusSession
            /\ r.store.stats = store.stats
            /\ r.store.completedGoals = store.completedGoals
            /\ r.store.settings = store.settings

\* A query for a URL that a commit would have blocked and counted: the session
\* is Focusing, blocked attempts are already stored, and the answer is "not
\* allowed".
C26_Witness ==
  /\ Focusing(store)
  /\ store.stats # None /\ store.stats[1].blockedAttempts > 0
  /\ ~CHECK_URL(store, [url |-> UnrelatedUrl]).out.allowed

\* The URLs of the model with a browser-internal scheme.
InternalUrls ==
  {u \in Urls : \/ StartsWith(u, "chrome://")
                \/ StartsWith(u, "edge://")
                \/ StartsWith(u, "chrome-extension://")
                \/ StartsWith(u, "moz-extension://")}

\* The whitelist a read of st returns holds the four protected default entries,
\* each enabled.
DefaultsEnabled(st) ==
  LET whitelist == getStorageWithDefault(st, "whitelist").value
  IN \A id \in ProtectedIds :
       \E i \in 1..Len(whitelist) : whitelist[i].id = id /\ whitelist[i].enabled

\* C27: no false positives on browser-internal URLs.  During a Focusing session
\* whose whitelist holds the four protected defaults enabled, a URL with scheme
\* chrome://, edge://, chrome-extension:// or moz-extension:// is decided not
\* blocked by shouldBlockUrl and CHECK_URL and is redirected by no commit, tab
\* activation, tab update or START_FOCUS; chrome://settings/ is decided
\* blocked=false with reason whitelisted.
C27_InternalUrlsNeverBlocked ==
  (Focusing(store) /\ DefaultsEnabled(store)) =>
    /\ \A u \in InternalUrls, t \in TabIds :
         /\ ~shouldBlockUrl(store, u).blocked
         /\ CHECK_URL(store, [url |-> u]).out.allowed
         /\ handleNavigation(store, MainFrame(t, u), lastBlockedUrl).redirect = None
         /\ handleTabActivated(store, t, u).redirect = None
         /\ \A active \in BOOLEAN :
              ~handleTabUpdate(store, [status |-> "complete", url |-> Some(u)], active).wouldBlock
         /\ \A g \in GoalTexts :
              START_FOCUS(store, [goalText |-> g], [id |-> t, url |-> u]).redirect = None
    /\ shouldBlockUrl(store, SettingsUrl).blocked = FALSE
    /\ shouldBlockUrl(store, SettingsUrl).reason = Some("whitelisted")

\* A Focusing session with a user entry next to the four enabled defaults, in
\* which an ordinary page is blocked: the internal URLs are decided in a
\* session that does block.
C27_Witness ==
  /\ Focusing(store)
  /\ DefaultsEnabled(store)
  /\ store.whitelist # None /\ Len(store.whitelist[1]) > Len(defaultWhitelist)
  /\ shouldBlockUrl(store, UnrelatedUrl).blocked
  /\ Cardinality(InternalUrls) = 6

\* The fields the UPDATE_SETTINGS call c names, none when c is no such call.
FieldsOf(c) == IF "updates" \in DOMAIN inflight.calls[c] THEN DOMAIN inflight.calls[c].updates ELSE {}

\* C28: UPDATE_SETTINGS merges into the latest stored settings.  When a request
\* has been answered and no other request is under way, each field it named
\* that no other request named holds the value it sent, also when the requests
\* interleaved at their awaits.
C28_SettingsUpdatesMerge ==
  \A c \in CallIds :
    (/\ At(c, "done")
     /\ \A d \in CallIds : At(d, "idle") \/ At(d, "done")) =>
      \A f \in FieldsOf(c) :
        (\A d \in CallIds \ {c} : f \notin FieldsOf(d)) =>
          getStorageWithDefault(store, "settings").value[f] = inflight.calls[c].updates[f]

\* The entries of the stored history that carry the id id.
CompletionsOf(st, id) == {i \in 1..Len(History(st)) : History(st)[i].id = id}

\* C29: completeTask changes session and stats atomically.  In no state, the
\* states between the awaits of completeTask included, do the stored stats or
\* the stored history record the completion while the stored session is still
\* Focusing on that goal; and the one goal of the run is counted at most once.
C29_CompletionAtomic ==
  /\ Focusing(store) =>
       /\ CountersOf(store.stats).completedTasks = inflight.base.completedTasks
       /\ CompletionsOf(store, GoalOf(store).id) = {}
  /\ CountersOf(store.stats).completedTasks <= inflight.base.completedTasks + 1
  /\ Len(History(store)) <= 1

\* Some enabled entry of list has a pattern that compiles and matches url.
UnionOver(list, url) ==
  \E i \in 1..Len(list) :
    list[i].enabled /\ compiles[list[i].pattern] /\ compileAndTest[list[i].pattern][url] = "match"

\* C30: isUrlWhitelisted is the union over the enabled entries whose pattern
\* compiles.  Called on the stored list, on the list with two entries
\* exchanged, with a disabled entry or one that does not compile (empty, spaces
\* only, no protocol) put in anywhere, or with such an entry taken out, it
\* returns whether some enabled, compiling entry of the stored list matches the
\* URL: true or false, whatever invalid patterns the list holds.
C30_UnionOfEnabledValid ==
  (At(1, "done") /\ "patterns" \in DOMAIN inflight.calls[1]) =>
    /\ inflight.calls[1].result \in BOOLEAN
    /\ inflight.calls[1].result = UnionOver(store.whitelist[1], inflight.calls[1].url)

\* A call on a rearranged list that starts with an enabled entry whose pattern
\* does not compile and returned true.
C30_Witness ==
  /\ At(1, "done") /\ "patterns" \in DOMAIN inflight.calls[1]
  /\ inflight.calls[1].patterns # store.whitelist[1]
  /\ Len(inflight.calls[1].patterns) > 1
  /\ inflight.calls[1].patterns[1].enabled /\ ~compiles[inflight.calls[1].patterns[1].pattern]
  /\ inflight.calls[1].result

\* The URLs the tab listeners skip: the special pages and those that contain
\* the path of the blocked page.
SkippedUrls == {u \in Urls : isSpecialPage[u] \/ includesBlockedPage[u]}

\* list with every entry disabled.
Disabled(list) == [i \in 1..Len(list) |-> [list[i] EXCEPT !.enabled = FALSE]]

\* st with every entry of its whitelist disabled.
AllOff(st) == setStorage(st, "whitelist", Disabled(getStorageWithDefault(st, "whitelist").value))

\* On store st neither tab listener redirects tab t showing url or touches the
\* whitelist key.
SkippedOn(st, t, url) ==
  /\ handleTabActivated(st, t, url).redirect = None
  /\ handleTabActivated(st, t, url).store.whitelist = st.whitelist
  /\ \A active \in BOOLEAN :
       handleTabUpdate(st, [status |-> "complete", url |-> Some(url)], active).store.whitelist
         = st.whitelist

\* C31: the tab listeners skip browser-internal URLs before any whitelist
\* check.  A tab whose URL starts with chrome://, about:, edge:// or
\* moz-extension://, or contains the blocked page's path, is not redirected by
\* handleTabActivated and makes neither listener read (and so rewrite) the
\* whitelist, also with every whitelist entry disabled; and handleTabUpdate, for
\* any URL, returns no redirect and leaves the stats as they are.
C31_TabListenersSkipInternal ==
  /\ \A t \in TabIds, u \in SkippedUrls :
       SkippedOn(store, t, u) /\ SkippedOn(AllOff(store), t, u)
  /\ \A u \in Urls, active \in BOOLEAN, status \in {"loading", "complete"} :
       LET upd == handleTabUpdate(store, [status |-> status, url |-> Some(u)], active)
       IN DOMAIN upd = {"store", "wouldBlock"} /\ upd.store.stats = store.stats

\* A Focusing session on a store without whitelist key: with every entry off an
\* activated tab showing an ordinary page is redirected, and one showing
\* chrome://settings/ would be decided blocked were it not skipped.
C31_Witness ==
  /\ Focusing(store)
  /\ store.whitelist = None
  /\ handleTabActivated(AllOff(store), 1, UnrelatedUrl).redirect # None
  /\ shouldBlockUrl(AllOff(store), SettingsUrl).blocked

\* The messages of the model.
Payloads(type) ==
  {None} \cup
  (CASE type = "START_FOCUS" -> {Some([goalText |-> g]) : g \in GoalTexts}
     [] type = "ADD_WHITELIST" -> {Some([pattern |-> GithubPattern, label |-> "Site"])}
     [] type = "REMOVE_WHITELIST" -> {Some([id |-> "chrome-internal"])}
     [] type = "TOGGLE_WHITELIST" -> {Some([id |-> "chrome-internal", enabled |-> FALSE])}
     [] type = "CHECK_URL" -> {Some([url |-> UnrelatedUrl])}
     [] type = "UPDATE_SETTINGS" -> {Some(updates) : updates \in SettingsUpdates}
     [] OTHER -> {})

UnknownTypes == {"PING"} \cup InheritedTypes

Messages ==
  {None} \cup {Some([type |-> type, payload |-> None]) : type \in UnknownTypes}
         \cup UNION {{Some([type |-> type, payload |-> payload]) : payload \in Payloads(type)} :
                       type \in HandlerTypes}

\* The message is answered as the claim says on store st: a registered type
\* with the one result of its handler, or with {success: false, error} when the
\* handler rejects; any other message with nothing, the store left as it is.
AnsweredOnce(st, message, currentTab) ==
  LET r == onMessage(st, message, currentTab)
      Registered(promise) ==
        /\ Len(r.responses) = 1
        /\ r.store = promise.store
        /\ r.responses[1] = (IF promise.rejected THEN [success |-> FALSE, error |-> "TypeError"]
                              ELSE promise.out)
  IN IF message # None /\ message[1].type \in HandlerTypes
     THEN Registered(CallHandler(st, message[1].type, message[1].payload, currentTab))
     ELSE r.responses = <<>> /\ r.store = st

\* C32: message dispatch answers every recognised command exactly once.  A
\* message whose type has a registered handler gets the handler's result, or
\* {success: false, error} when the handler rejects; a message without a type
\* or with a type that was not registered gets no response and changes nothing;
\* and after a handler has rejected the next message is answered in the same
\* way.
C32_DispatchAnswersOnce ==
  LET currentTab == [id |-> 1, url |-> UnrelatedUrl]
  IN \A message \in Messages :
       /\ AnsweredOnce(store, message, currentTab)
       /\ (message # None /\ message[1].payload = None) =>
            \A next \in {Some([type |-> "GET_STATS", payload |-> None]),
                          Some([type |-> "CHECK_URL", payload |-> Some([url |-> UnrelatedUrl])])} :
              AnsweredOnce(onMessage(store, message, currentTab).store, next, currentTab)

\* C33: a Focusing session is completed at most once.  When the COMPLETE_TASK
\* requests for the one session of the run have returned, however their steps
\* interleaved, completedTasks has risen by at most 1, the goal's id is in the
\* history at most once, and at most one request has returned success=true.
C33_CompletedAtMostOnce ==
  Quiescent =>
    /\ CountersOf(store.stats).completedTasks <= inflight.base.completedTasks + 1
    /\ Cardinality(CompletionsOf(store, GoalOf(FocusingStore).id)) <= 1
    /\ inflight.completed <= 1

\* Call c writes the ended session in this step.
EndsSession(c) == At(c, "task:end") /\ inflight'.calls[c].pc = "task:badge"

\* C34: completeTask ends only the session whose goal it recorded.  When the
\* final session write of a completeTask call finds the stored session Focusing
\* on another goal than the one the call read (a START_FOCUS has written a new
\* session in between), the write leaves that session as it is.
C34_EndsOnlyItsOwnSession ==
  [][\A c \in CallIds :
       (EndsSession(c) /\ Focusing(store) /\ GoalOf(store).id # inflight.calls[c].goal.id) =>
         store'.focusSession = store.focusSession]_vars

\* C35: CANCEL_FOCUS answers success=true only if that request cleared the
\* session: every CANCEL_FOCUS call that has answered success=true has written
\* the idle session, also when an UPDATE_SETTINGS that turns strictMode on was
\* written between its two reads of the settings.
C35_CancelSuccessMeansCleared ==
  \A c \in CallIds :
    (At(c, "done") /\ "cleared" \in DOMAIN inflight.calls[c] /\ inflight.calls[c].success) =>
      inflight.calls[c].cleared

\* C36: every GET_FOCUS_STATE response is internally consistent: the isBlocking
\* it carries is true exactly when the session it carries is active with a
\* goal, also when another handler has written the session between the two
\* reads of the handler.
C36_FocusStateConsistent ==
  \A c \in CallIds :
    (At(c, "done") /\ "isBlocking" \in DOMAIN inflight.calls[c]) =>
      inflight.calls[c].isBlocking
        = (inflight.calls[c].session.active /\ inflight.calls[c].session.currentGoal # None)

\* C37: the badge follows the session.  Whenever no handler is in flight the
\* badge text is "ON" if the stored session is Focusing and empty if not,
\* whatever START_FOCUS, COMPLETE_TASK and CANCEL_FOCUS calls have run and
\* however their steps interleaved; and updateBadge leaves a valid stored
\* session record as it is.
C37_BadgeFollowsSession ==
  /\ Quiescent => (badge = (IF Focusing(store) THEN "ON" ELSE ""))
  /\ ~Anomalous(store) => updateBadge(store).store = store

\* A second session was started while the first was being completed or
\* cancelled, all calls have returned, and the badge is off on an idle store.
C37_Witness ==
  /\ Quiescent
  /\ rnd > 1
  /\ \E c \in CallIds : At(c, "done") /\ "session" \in DOMAIN inflight.calls[c]
                        /\ "success" \in DOMAIN inflight.calls[c]
  /\ ~Focusing(store)
  /\ badge = ""

\* The stored whitelist, empty when the key is absent.
StoredList(st) == IF st.whitelist = None THEN <<>> ELSE st.whitelist[1]

\* Some call, suspended or returned, removes id; some call other than c toggles
\* id.
Removed(id) == \E d \in CallIds : "removes" \in DOMAIN inflight.calls[d] /\ inflight.calls[d].removes = id

ToggledBeside(c, id) ==
  \E d \in CallIds \ {c} : "toggles" \in DOMAIN inflight.calls[d] /\ inflight.calls[d].toggles = id

\* C38: whitelist mutations are not lost.  When all whitelist commands have
\* returned, however they interleaved, the entry of every ADD_WHITELIST that
\* answered success is in the stored list unless a REMOVE_WHITELIST named its
\* id, and the entry a TOGGLE_WHITELIST named carries the enabled value it set
\* unless another toggle or a remove named that id.
C38_WhitelistMutationsKept ==
  Quiescent =>
    \A c \in CallIds :
      LET call == inflight.calls[c]
      IN /\ ("pattern" \in DOMAIN call /\ ~Removed(call.pattern.id)) =>
              \E i \in 1..Len(StoredList(store)) : StoredList(store)[i] = call.pattern
         /\ ("toggles" \in DOMAIN call /\ ~Removed(call.toggles) /\ ~ToggledBeside(c, call.toggles)) =>
              \E i \in 1..Len(StoredList(store)) :
                StoredList(store)[i].id = call.toggles /\ StoredList(store)[i].enabled = call.enabled

\* The positions of a stored list that hold the first occurrence of their id.
FirstOccurrences(stored) ==
  {i \in 1..Len(stored) : \A j \in 1..(i - 1) : stored[j].id # stored[i].id}

\* The position, among the first occurrences, of first occurrence i.
RankOf(stored, i) == Cardinality({j \in FirstOccurrences(stored) : j <= i})

\* entry is its stored form: flag, label and id kept, the pattern changed only
\* from the legacy form of a default id to its current form.
Conserves(entry, was) ==
  /\ entry.id = was.id
  /\ entry.enabled = was.enabled
  /\ entry.label = was.label
  /\ \/ entry.pattern = was.pattern
     \/ /\ was.id \in DOMAIN legacyDefaultPatterns
        /\ was.pattern \in legacyDefaultPatterns[was.id].legacy
        /\ entry.pattern = legacyDefaultPatterns[was.id].current

\* The properties of the list normalizeWhitelist returned for stored.
Conservative(stored, list) ==
  /\ \A i, j \in 1..Len(list) : i # j => list[i].id # list[j].id
  /\ ProtectedIds \subseteq IdsOf(list)
  /\ Len(list) >= Cardinality(FirstOccurrences(stored))
  /\ \A i \in FirstOccurrences(stored) : Conserves(list[RankOf(stored, i)], stored[i])
  /\ \A k \in (Cardinality(FirstOccurrences(stored)) + 1)..Len(list) :
       \E d \in 1..Len(defaultWhitelist) : list[k] = defaultWhitelist[d]

\* C39: normalizeWhitelist is idempotent and conservative.  The list it returns
\* has pairwise distinct ids, the first occurrence of each stored id kept in
\* the stored order with its enabled flag and label, holds every protected
\* default id, differs in a pattern only where a default id held its legacy
\* form, and normalizeWhitelist applied to that list returns the same list with
\* changed = false.
C39_NormalizeIdempotentConservative ==
  LET call == inflight.calls[1]
  IN /\ "normalized" \in DOMAIN call =>
          Conservative(IF call.stored = None THEN <<>> ELSE call.stored[1], call.normalized.list)
     /\ "again" \in DOMAIN call =>
          call.again = [list |-> call.normalized.list, changed |-> FALSE]

\* The function was applied twice to a stored list that holds an id twice and a
\* default id in its legacy form, and lacks a default id.
C39_Witness ==
  LET call == inflight.calls[1]
      Case(stored) ==
        /\ Cardinality(FirstOccurrences(stored)) < Len(stored)
        /\ \E i \in FirstOccurrences(stored) :
             /\ stored[i].id \in DOMAIN legacyDefaultPatterns
             /\ stored[i].pattern \in legacyDefaultPatterns[stored[i].id].legacy
             /\ ~stored[i].enabled
        /\ ~(ProtectedIds \subseteq IdsOf(stored))
  IN /\ "again" \in DOMAIN call
     /\ call.stored # None
     /\ Case(call.stored[1])
     /\ call.normalized.changed

=============================================================================
